---- MODULE Spec2Model ----
(***************************************************************************)
(* btc-ai-trader: the streaming feed (ws_stream.py), the risk gate         *)
(* (risk.py), the orchestrator's loop (main.py) with get_decision          *)
(* (gemini_client.py), fetch_multi_timeframe and the indicator engine      *)
(* (data.py), the feed's trade tape, order book and message handler        *)
(* (ws_stream.py), place_market_order and execute_open (execution.py),     *)
(* the requests of get_decision (gemini_client.py), and the entries and    *)
(* closes the orchestrator makes on one account (main.py, risk.py).        *)
(*                                                                         *)
(* Threads: the background feed thread ("feed", ws_stream.start._run and   *)
(* the WebSocketApp callbacks it runs) and the main thread ("main").       *)
(* Critical sections the main thread takes under _lock are single steps    *)
(* guarded by lock = "free"; the feed's _on_message critical section is    *)
(* split at every write, because the main thread's accessors that take no  *)
(* lock can run between two of its writes.                                 *)
(***************************************************************************)
EXTENDS Integers, Sequences, FiniteSets, TLC

\* ------------------------------------------------------------- bounds
\* close events the feed processes per interval
MaxCloses == 2
\* calls of start() by the client
MaxStartCalls == 2
\* the capacity of the trade tape: the maxlen of the deque _agg_trades, 500
\* in ws_stream.py, scaled down
MaxTrades == 3
\* the clock stops here, in milliseconds
MaxNow == 15001
\* bars of a candle history
MaxBars == 32

\* ---------------------------------------------------------- constants
\* the window of get_realtime_flow, in milliseconds
FLOW_WINDOW_MS == 10000
\* the imbalance beyond which the book shows pressure, in percent
PRESSURE_PCT == 10
\* the submissions place_market_order attempts: range(3)
MAX_ATTEMPTS == 3
\* the periods of the RSI, of its rolling window and of the mean over it
RSI_PERIOD == 14
STOCH_WINDOW == 14
STOCH_SMOOTH == 3
\* the two tracked kline intervals (ws_stream.py _on_open, _on_message)
Intervals == {"5m", "1m"}

NoMsg == [e |-> "none", i |-> "", x |-> FALSE]

\* Raw stream messages, by what _on_message decodes from them.
Msgs ==
    [e : {"kline"}, i : Intervals, x : BOOLEAN]
    \cup {[e |-> "aggTrade", i |-> "", x |-> FALSE],
          [e |-> "depthUpdate", i |-> "", x |-> FALSE],
          [e |-> "invalid", i |-> "", x |-> FALSE]}

\* public accessors of ws_stream.py and whether their body is "with _lock:"
LockedAccessors == {"get_state", "get_realtime_book"}
UnlockedAccessors ==
    {"get_realtime_price", "is_candle_closed", "is_1m_candle_closed",
     "get_realtime_flow", "is_connected"}
Accessors == LockedAccessors \cup UnlockedAccessors

VARIABLES
    \* ---- ws_stream module state
    kline_closed,      \* _state["kline_5m_closed"], _state["kline_1m_closed"]
    kline_close_ack,   \* _state["kline_5m_close_ack"], _state["kline_1m_close_ack"]
    connected,         \* _state["connected"]
    lock,              \* holder of _lock: "free", "feed" or "main"
    ws_instance,       \* the global _ws_instance: "none" or "app"
    sock,              \* the WebSocketApp's connection: "closed" or "open"
    threads,           \* background threads alive (_ws_thread)
    apps,              \* WebSocketApp objects created by start()
    \* ---- feed thread
    feedPc,            \* where the feed thread is in _run / the callbacks
    feedMsg,           \* the decoded message _on_message is handling
    \* ---- main thread
    mainPc,            \* where the main thread is
    mainAcc,           \* the accessor the main thread is inside
    ret,               \* the value an is_*candle_closed call is returning
    retOk,             \* every value returned so far was that of the state read
    \* ---- history
    closes,            \* close events processed, per interval
    unacked,           \* close events processed since the last ack, per interval
    coalesced,         \* the last ack cleared two or more closes and no close
                       \* followed it, per interval
    startCalls,        \* calls of start()
    stopDone,          \* stop() has returned
    subscribed,        \* the subscribe request of the current connection was sent
    \* ---- orchestrator (main.py)
    cycles,            \* full analysis cycles started (cycle_count)
    pyramid_count,     \* the global _pyramid_count
    account,           \* the account state the current cycle or quick check fetched
    response,          \* the decision-maker's response of the current cycle
    decided,           \* what get_decision did with it in the current cycle
    execCall,          \* the execution call of the current cycle or quick check
    closeRet,          \* what execute_close returned in it
    quick,             \* what get_quick_check gave the quick check
    recordCalls,       \* record_trade_result calls made in it
    shutdownRequested, \* a SIGINT or SIGTERM was delivered
    \* ---- fetch_multi_timeframe (data.py)
    mtfPc,             \* "idle", "loop", "returned" or "raised"
    mtfIdx,            \* the index of the timeframe the loop is at
    mtfInput,          \* how the fetch and the computation go, per timeframe
    mtfResult,         \* the result dict built so far
    \* ---- RiskManager (risk.py)
    starting_balance,  \* self.starting_balance
    consecutive_losses,\* self.consecutive_losses
    riskCall,          \* the last validate call: its arguments and its result
    pnlLog,            \* the pnl of the last MaxLog record_trade_result calls the
                       \* gate's client made since construction or the last reset
    \* ---- ws_stream: the trade tape
    agg_trades,        \* the deque _agg_trades, oldest entry first
    now,               \* the clock, time.time() * 1000
    flowRet,           \* what the last get_realtime_flow call returned
    evicted,           \* an append to the full tape dropped its oldest entry
    \* ---- ws_stream: the order book
    book,              \* the _state["book_*"] fields
    lastDepth,         \* the last depth message _on_message handled
    bookRet,           \* what the last get_realtime_book call returned
    \* ---- place_market_order (execution.py)
    ordPc,             \* "idle", "try", "returned", "raised" or "opened"
    ordAttempt,        \* the loop variable attempt
    ordQty,            \* the local quantity
    ordLog,            \* the _post calls made: the quantity sent and the outcome
    openQty,           \* the local quantity of execute_open, the caller
    openRet,           \* what execute_open returned and sent as SL and TP
    \* ---- the indicator engine (data.py)
    indPc,             \* "idle", "computed", "extracted" or "raised"
    candles,           \* the closes of the candle history, oldest first
    emas,              \* ema9, ema20, ema50 of the latest row
    snapshot,          \* what extract_indicators returned
    \* ---- get_decision's requests (gemini_client.py)
    callPc,            \* "idle", the model being asked, "returned" or "raised"
    callAttempt,       \* the loop variable attempt of _call_with_retry
    callLog,           \* the generate_content calls made: the model, the outcome
    callRet,           \* raw_text at the end: "none", "None" or "text"
    \* ---- the gate between the entries and the closes of the account
    held,              \* the quantity of the account's position, 0 without one
    shut,              \* consecutive_losses has reached MAX_CONSECUTIVE_LOSSES
    \* ---- ws_stream: _on_message as a whole
    last_msg_ts,       \* _state["last_msg_ts"]
    price,             \* _state["price"] and _state["price_ts"]
    kline,             \* _state["kline"]
    rawMsg,            \* the raw message _on_message was last called with
    msgRet             \* how that call ended: "none", "returned" or "raised"

feedVars == <<feedPc, feedMsg>>
stateVars == <<kline_closed, kline_close_ack, connected>>
lifeVars == <<ws_instance, sock, threads, apps>>
mainVars == <<mainPc, mainAcc, ret, retOk>>
histVars == <<closes, unacked, coalesced, startCalls, stopDone, subscribed>>
orchVars == <<cycles, pyramid_count, account, response, decided, execCall,
              closeRet, quick, recordCalls, shutdownRequested>>
tapeVars == <<agg_trades, now, flowRet, evicted>>
bookVars == <<book, lastDepth, bookRet>>
orderVars == <<ordPc, ordAttempt, ordQty, ordLog, openQty, openRet>>
indVars == <<indPc, candles, emas, snapshot>>
callVars == <<callPc, callAttempt, callLog, callRet>>
gateVars == <<held, shut>>
msgVars == <<last_msg_ts, price, kline, rawMsg, msgRet>>
moreVars == <<callVars, gateVars, msgVars>>
auxVars == <<tapeVars, bookVars, orderVars, indVars, moreVars>>
dataVars == <<mtfPc, mtfIdx, mtfInput, mtfResult, auxVars>>
\* what lies outside ws_stream and the thread calling it
riskVars == <<starting_balance, consecutive_losses, riskCall, pnlLog>>
appVars == <<orchVars, riskVars, dataVars>>
vars == <<stateVars, lock, lifeVars, feedVars, mainVars, histVars, appVars>>

\* ------------------------------------------------- ws_stream: accessors

\* is_candle_closed() for "5m", is_1m_candle_closed() for "1m", evaluated on
\* one state
is_candle_closed(i) == kline_closed[i] /\ ~kline_close_ack[i]

\* is_*candle_closed, first operand of "and": _state["kline_*_closed"]
ClosedOperand(i) == kline_closed[i]

\* (mutant) the accessor returns the closed flag alone
AckOperand_IgnoresAck(i) == TRUE

\* is_*candle_closed, second operand: not _state["kline_*_close_ack"]
AckOperand(i) == ~kline_close_ack[i]

\* the interval an is_*candle_closed accessor reads
AccInterval(a) == IF a = "is_candle_closed" THEN "5m" ELSE "1m"

\* (mutant) the ack writes the other interval's key
AckedFlags_WrongKey(ack, i) ==
    [ack EXCEPT ![IF i = "5m" THEN "1m" ELSE "5m"] = TRUE]

\* ack_candle_close() / ack_1m_candle_close(): the flags after the call
AckedFlags(ack, i) == [ack EXCEPT ![i] = TRUE]

\* _on_message's close branch, first write: kline_*_closed = True
ClosedFlags(cl, i) == [cl EXCEPT ![i] = TRUE]

\* (mutant) the close branch does not reset the acknowledgement
UnackedFlags_Forgotten(ack, i) == ack

\* _on_message's close branch, second write: kline_*_close_ack = False
UnackedFlags(ack, i) == [ack EXCEPT ![i] = FALSE]

\* (mutant) start() without its guard
StartAlreadyRunning_Never == FALSE

\* start()'s guard: _ws_thread is not None and _ws_thread.is_alive()
\* (_run never returns, so a started thread stays alive)
StartAlreadyRunning == threads > 0

\* the ws_stream module as imported
InitFeed ==
    /\ kline_closed = [i \in Intervals |-> FALSE]
    /\ kline_close_ack = [i \in Intervals |-> TRUE]
    /\ connected = FALSE
    /\ lock = "free"
    /\ ws_instance = "none"
    /\ sock = "closed"
    /\ threads = 0
    /\ apps = 0
    /\ feedPc = "none"
    /\ feedMsg = NoMsg
    /\ closes = [i \in Intervals |-> 0]
    /\ unacked = [i \in Intervals |-> 0]
    /\ coalesced = [i \in Intervals |-> FALSE]
    /\ startCalls = 0
    /\ stopDone = FALSE
    /\ subscribed = FALSE

\* ------------------------------------------------ RiskManager (risk.py)

\* config.py risk limits; MIN_CONFIDENCE is 0.3, and confidences are
\* counted in hundredths
MAX_POSITION_SIZE_PCT == 90
MAX_LEVERAGE == 20
MIN_CONFIDENCE_X100 == 30
MAX_DRAWDOWN_PCT == 50
MAX_CONSECUTIVE_LOSSES == 12

\* the longest losing streak recorded
MaxLosses == 13
\* record_trade_result calls remembered in pnlLog
MaxLog == 3

\* dict.get(key, default)
Get(d, k, default) == IF k \in DOMAIN d THEN d[k] ELSE default

\* (mutant) the drawdown limit itself is tolerated
DrawdownBreached_Strict(current_balance) ==
    IF starting_balance > 0
    THEN (starting_balance - current_balance) * 100
            > MAX_DRAWDOWN_PCT * starting_balance
    ELSE 0 > MAX_DRAWDOWN_PCT

\* drawdown_pct >= config.MAX_DRAWDOWN_PCT, with
\* drawdown_pct = (starting_balance - current_balance) / starting_balance * 100
\* if starting_balance > 0 else 0
DrawdownBreached(current_balance) ==
    IF starting_balance > 0
    THEN (starting_balance - current_balance) * 100
            >= MAX_DRAWDOWN_PCT * starting_balance
    ELSE 0 >= MAX_DRAWDOWN_PCT

Verdict(a, r) == [allowed |-> a, reason |-> r]

\* (mutant) an open position does not stop an entry
validate_checks_NoPositionCheck(decision, current_balance, open_positions) ==
    IF DrawdownBreached(current_balance)
    THEN Verdict(FALSE, "drawdown")
    ELSE IF consecutive_losses >= MAX_CONSECUTIVE_LOSSES
    THEN Verdict(FALSE, "consecutive_losses")
    ELSE IF Get(decision, "position_size_percent", 0) > MAX_POSITION_SIZE_PCT
    THEN Verdict(FALSE, "size_max")
    ELSE IF Get(decision, "position_size_percent", 0) <= 0
    THEN Verdict(FALSE, "size_min")
    ELSE IF Get(decision, "leverage", 0) > MAX_LEVERAGE
    THEN Verdict(FALSE, "leverage_max")
    ELSE IF Get(decision, "leverage", 0) < 1
    THEN Verdict(FALSE, "leverage_min")
    ELSE IF Get(decision, "confidence", 0) < MIN_CONFIDENCE_X100
    THEN Verdict(FALSE, "confidence")
    ELSE IF Get(decision, "stop_loss", 0) <= 0 \/ Get(decision, "take_profit", 0) <= 0
    THEN Verdict(FALSE, "sl_tp")
    ELSE Verdict(TRUE, "approved")

\* (mutant) no upper limit on the leverage
validate_checks_NoLeverageMax(decision, current_balance, open_positions) ==
    IF DrawdownBreached(current_balance)
    THEN Verdict(FALSE, "drawdown")
    ELSE IF consecutive_losses >= MAX_CONSECUTIVE_LOSSES
    THEN Verdict(FALSE, "consecutive_losses")
    ELSE IF Len(open_positions) > 0
    THEN Verdict(FALSE, "open_position")
    ELSE IF Get(decision, "position_size_percent", 0) > MAX_POSITION_SIZE_PCT
    THEN Verdict(FALSE, "size_max")
    ELSE IF Get(decision, "position_size_percent", 0) <= 0
    THEN Verdict(FALSE, "size_min")
    ELSE IF Get(decision, "leverage", 0) < 1
    THEN Verdict(FALSE, "leverage_min")
    ELSE IF Get(decision, "confidence", 0) < MIN_CONFIDENCE_X100
    THEN Verdict(FALSE, "confidence")
    ELSE IF Get(decision, "stop_loss", 0) <= 0 \/ Get(decision, "take_profit", 0) <= 0
    THEN Verdict(FALSE, "sl_tp")
    ELSE Verdict(TRUE, "approved")

\* (mutant) the leverage limit is tested before the drawdown
validate_checks_LeverageFirst(decision, current_balance, open_positions) ==
    IF Get(decision, "leverage", 0) > MAX_LEVERAGE
    THEN Verdict(FALSE, "leverage_max")
    ELSE IF DrawdownBreached(current_balance)
    THEN Verdict(FALSE, "drawdown")
    ELSE IF consecutive_losses >= MAX_CONSECUTIVE_LOSSES
    THEN Verdict(FALSE, "consecutive_losses")
    ELSE IF Len(open_positions) > 0
    THEN Verdict(FALSE, "open_position")
    ELSE IF Get(decision, "position_size_percent", 0) > MAX_POSITION_SIZE_PCT
    THEN Verdict(FALSE, "size_max")
    ELSE IF Get(decision, "position_size_percent", 0) <= 0
    THEN Verdict(FALSE, "size_min")
    ELSE IF Get(decision, "leverage", 0) < 1
    THEN Verdict(FALSE, "leverage_min")
    ELSE IF Get(decision, "confidence", 0) < MIN_CONFIDENCE_X100
    THEN Verdict(FALSE, "confidence")
    ELSE IF Get(decision, "stop_loss", 0) <= 0 \/ Get(decision, "take_profit", 0) <= 0
    THEN Verdict(FALSE, "sl_tp")
    ELSE Verdict(TRUE, "approved")

\* validate after its HOLD and CLOSE returns: the checks, each returning at
\* its first failure
validate_checks(decision, current_balance, open_positions) ==
    IF DrawdownBreached(current_balance)
    THEN Verdict(FALSE, "drawdown")
    ELSE IF consecutive_losses >= MAX_CONSECUTIVE_LOSSES
    THEN Verdict(FALSE, "consecutive_losses")
    ELSE IF Len(open_positions) > 0
    THEN Verdict(FALSE, "open_position")
    ELSE IF Get(decision, "position_size_percent", 0) > MAX_POSITION_SIZE_PCT
    THEN Verdict(FALSE, "size_max")
    ELSE IF Get(decision, "position_size_percent", 0) <= 0
    THEN Verdict(FALSE, "size_min")
    ELSE IF Get(decision, "leverage", 0) > MAX_LEVERAGE
    THEN Verdict(FALSE, "leverage_max")
    ELSE IF Get(decision, "leverage", 0) < 1
    THEN Verdict(FALSE, "leverage_min")
    ELSE IF Get(decision, "confidence", 0) < MIN_CONFIDENCE_X100
    THEN Verdict(FALSE, "confidence")
    ELSE IF Get(decision, "stop_loss", 0) <= 0 \/ Get(decision, "take_profit", 0) <= 0
    THEN Verdict(FALSE, "sl_tp")
    ELSE Verdict(TRUE, "approved")

\* (mutant) CLOSE goes through the checks like an entry
validate_CloseGated(decision, current_balance, open_positions) ==
    IF Get(decision, "action", "HOLD") = "HOLD"
    THEN Verdict(TRUE, "hold")
    ELSE validate_checks(decision, current_balance, open_positions)

\* RiskManager.validate
validate(decision, current_balance, open_positions) ==
    IF Get(decision, "action", "HOLD") = "HOLD"
    THEN Verdict(TRUE, "hold")
    ELSE IF Get(decision, "action", "HOLD") = "CLOSE"
    THEN Verdict(TRUE, "close")
    ELSE validate_checks(decision, current_balance, open_positions)

\* ---- the arguments validate is applied to

DecisionKeys ==
    {"action", "position_size_percent", "leverage", "confidence", "stop_loss",
     "take_profit"}

FullDecisions ==
    [action : {"BUY", "SELL", "ADD", "HOLD", "CLOSE"},
     position_size_percent : {0, 45, 90, 91},
     leverage : {0, 1, 20, 25},
     confidence : {29, 30},
     stop_loss : {0, 100},
     take_profit : {0, 200}]

\* a dict without key k
Without(d, k) == [j \in DOMAIN d \ {k} |-> d[j]]

SoundEntry ==
    [action |-> "BUY", position_size_percent |-> 45, leverage |-> 20,
     confidence |-> 30, stop_loss |-> 100, take_profit |-> 200]

\* decisions with every key, and a sound entry with one key missing
Decisions == FullDecisions \cup {Without(SoundEntry, k) : k \in DecisionKeys}

StartingBalances == {0, 1000}
Balances == {500, 900, 1000}
PositionLists == {<< >>, <<[side |-> "LONG"]>>}
Pnls == {-50, 0, 10}

NoCall == [made |-> FALSE]

\* ---- main.py and data.py before anything ran

\* a dict without keys
EmptyDict == [k \in {} |-> 0]

\* no account state fetched
NoAccount == [fetched |-> FALSE, balance |-> 0, positions |-> << >>]

\* the decision-maker was not asked
NoResponse == [text |-> "not_asked", obj |-> EmptyDict]

\* get_decision was not called
NotCalled == [ret |-> "not_called", value |-> EmptyDict]

\* main() before its loop: cycle_count = 0, _pyramid_count = 0
OrchIdle ==
    /\ cycles = 0
    /\ pyramid_count = 0
    /\ account = NoAccount
    /\ response = NoResponse
    /\ decided = NotCalled
    /\ execCall = "none"
    /\ closeRet = "none"
    /\ quick = "not_called"
    /\ recordCalls = 0
    /\ shutdownRequested = FALSE

\* fetch_multi_timeframe not called
DataIdle ==
    /\ mtfPc = "idle"
    /\ mtfIdx = 1
    /\ mtfInput = << >>
    /\ mtfResult = EmptyDict

\* get_realtime_flow was not called
NoFlow == [made |-> FALSE, buy_vol_10s |-> 0, sell_vol_10s |-> 0,
           buy_pct_10s |-> 0, trade_count_10s |-> 0, flow |-> "none"]

\* the tape at import: _agg_trades = deque(maxlen=500), empty
TapeIdle ==
    /\ agg_trades = << >>
    /\ now = 0
    /\ flowRet = NoFlow
    /\ evicted = FALSE

\* a float as the quotient of two integers
Ratio(n, d) == [num |-> n, den |-> d]

\* the book fields of _state at import
InitialBook == [book_bids_vol |-> 0, book_asks_vol |-> 0,
                book_imbalance |-> Ratio(0, 1), book_pressure |-> "NEUTRAL",
                book_best_bid |-> 0, book_best_ask |-> 0]

\* no depth message handled
NoDepth == [made |-> FALSE, bids |-> << >>, asks |-> << >>]

\* get_realtime_book was not called
NoBook == [made |-> FALSE, bid_volume |-> 0, ask_volume |-> 0,
           imbalance_pct |-> 0, pressure |-> "none", best_bid |-> 0,
           best_ask |-> 0]

BookIdle ==
    /\ book = InitialBook
    /\ lastDepth = NoDepth
    /\ bookRet = NoBook

\* execute_open has not returned
NoOpen == [made |-> FALSE, quantity |-> 0, sl_quantity |-> 0, tp_quantity |-> 0]

\* place_market_order was not called
OrderIdle ==
    /\ ordPc = "idle"
    /\ ordAttempt = 0
    /\ ordQty = 0
    /\ ordLog = << >>
    /\ openQty = 0
    /\ openRet = NoOpen

\* extract_indicators returned nothing
NoSnapshot == [made |-> FALSE, ema9 |-> 0, ema20 |-> 0, ema50 |-> 0,
               rsi14 |-> "none", stoch_rsi_k |-> "none",
               stoch_rsi_d |-> "none", ema_trend |-> "none"]

\* no candle history fetched
IndIdle ==
    /\ indPc = "idle"
    /\ candles = << >>
    /\ emas = <<0, 0, 0>>
    /\ snapshot = NoSnapshot

\* the tape, the book, the order placement and the engine left alone
\* get_decision was not called
CallIdle ==
    /\ callPc = "idle"
    /\ callAttempt = 0
    /\ callLog = << >>
    /\ callRet = "none"

\* no position on the account
GateIdle ==
    /\ held = 0
    /\ shut = FALSE

\* _state["price"] and _state["price_ts"] at import
NoPrice == [value |-> 0, ts |-> 0]

\* _state["kline"] at import, the empty dict
NoKline == [set |-> FALSE, close |-> 0, is_closed |-> FALSE]

\* no raw message
NoRaw == [kind |-> "none", i |-> "", x |-> FALSE, p |-> 0, bids |-> << >>,
          asks |-> << >>]

\* _on_message was not called
MsgIdle ==
    /\ last_msg_ts = 0
    /\ price = NoPrice
    /\ kline = NoKline
    /\ rawMsg = NoRaw
    /\ msgRet = "none"

MoreIdle == CallIdle /\ GateIdle /\ MsgIdle

AuxIdle == TapeIdle /\ BookIdle /\ OrderIdle /\ IndIdle /\ MoreIdle

\* no gate in use
RiskIdle ==
    /\ starting_balance = 0
    /\ consecutive_losses = 0
    /\ riskCall = NoCall
    /\ pnlLog = << >>

\* RiskManager.__init__(starting_balance)
InitRisk ==
    /\ InitFeed
    /\ OrchIdle
    /\ DataIdle
    /\ AuxIdle
    /\ mainPc = "idle"
    /\ mainAcc = "none"
    /\ ret = "none"
    /\ retOk = TRUE
    /\ starting_balance \in StartingBalances
    /\ consecutive_losses = 0
    /\ riskCall = NoCall
    /\ pnlLog = << >>

wsVars == <<stateVars, lock, lifeVars, feedVars, mainVars, histVars>>

\* (mutant) a rejection counts as a loss
RiskApply_CountsRejection(decision, current_balance, open_positions) ==
    /\ riskCall' = [made |-> TRUE,
                    decision |-> decision,
                    current_balance |-> current_balance,
                    open_positions |-> open_positions,
                    result |-> validate(decision, current_balance, open_positions)]
    /\ consecutive_losses' =
          IF validate(decision, current_balance, open_positions).allowed
          THEN consecutive_losses ELSE consecutive_losses + 1
    /\ UNCHANGED <<starting_balance, pnlLog, orchVars, dataVars, wsVars>>

\* validate applied to some arguments
RiskApply(decision, current_balance, open_positions) ==
    /\ riskCall' = [made |-> TRUE,
                    decision |-> decision,
                    current_balance |-> current_balance,
                    open_positions |-> open_positions,
                    result |-> validate(decision, current_balance, open_positions)]
    /\ UNCHANGED <<starting_balance, consecutive_losses, pnlLog, orchVars, dataVars, wsVars>>

\* (mutant) a break-even trade extends the streak
record_trade_result_ZeroIsLoss(pnl) ==
    consecutive_losses' = IF pnl <= 0 THEN consecutive_losses + 1 ELSE 0

\* record_trade_result(pnl)
record_trade_result(pnl) ==
    consecutive_losses' = IF pnl < 0 THEN consecutive_losses + 1 ELSE 0

\* the last MaxLog entries of a call log
LastCalls(log) ==
    IF Len(log) <= MaxLog THEN log ELSE SubSeq(log, Len(log) - MaxLog + 1, Len(log))

\* a call of validate
RiskValidate ==
    /\ ~riskCall.made
    /\ \E d \in Decisions, b \in Balances, p \in PositionLists : RiskApply(d, b, p)

\* the caller has taken validate's result
RiskReturn ==
    /\ riskCall.made
    /\ riskCall' = NoCall
    /\ UNCHANGED <<starting_balance, consecutive_losses, pnlLog, orchVars, dataVars, wsVars>>

\* a call of record_trade_result
RiskRecord(pnl) ==
    /\ ~riskCall.made
    /\ pnl < 0 => consecutive_losses < MaxLosses
    /\ record_trade_result(pnl)
    /\ pnlLog' = LastCalls(Append(pnlLog, pnl))
    /\ UNCHANGED <<starting_balance, riskCall, orchVars, dataVars, wsVars>>

\* reset_consecutive_losses()
RiskReset ==
    /\ ~riskCall.made
    /\ consecutive_losses' = 0
    /\ pnlLog' = << >>
    /\ UNCHANGED <<starting_balance, riskCall, orchVars, dataVars, wsVars>>

NextRisk ==
    \/ RiskValidate
    \/ RiskReturn
    \/ \E pnl \in Pnls : RiskRecord(pnl)
    \/ RiskReset

\* the risk gate under any sequence of calls
SpecRisk == InitRisk /\ [][NextRisk]_vars

\* ------------------------------------- fetch_multi_timeframe (data.py)

\* the (interval, label, limit) list the loop goes through, by label
Timeframes == <<"1m", "5m", "15m", "1h", "4h">>

\* how the body of the try goes for one timeframe: it completes, or
\* fetch_candles raises (HTTP error, timeout), or compute_indicators or the
\* summary raises (too few candles for df.iloc[-1], a missing column)
MtfOutcomes == {"ok", "fetch_raises", "compute_raises"}

\* the signal summary of lines 200-223, by its derived signals
Summary == [trend |-> "MIXED", macd_cross |-> "NONE", momentum |-> "WEAK"]

\* the except clause's entry: {"error": str(exc)}
ErrorMarker(outcome) == [error |-> outcome]

\* result[label] = value
DictSet(d, k, v) == [j \in DOMAIN d \cup {k} |-> IF j = k THEN v ELSE d[j]]

InitData ==
    /\ InitFeed
    /\ OrchIdle
    /\ RiskIdle
    /\ mainPc = "idle"
    /\ mainAcc = "none"
    /\ ret = "none"
    /\ retOk = TRUE
    /\ mtfPc = "idle"
    /\ mtfIdx = 1
    /\ mtfInput \in [1..Len(Timeframes) -> MtfOutcomes]
    /\ mtfResult = EmptyDict
    /\ AuxIdle

\* fetch_multi_timeframe is called: result = {}
MtfCall ==
    /\ mtfPc = "idle"
    /\ mtfPc' = "loop"
    /\ mtfIdx' = 1
    /\ mtfResult' = EmptyDict
    /\ UNCHANGED <<mtfInput, auxVars, orchVars, riskVars, wsVars>>

\* (mutant) one iteration without its try: a failure leaves the function
MtfStep_NoTry ==
    /\ mtfPc = "loop"
    /\ IF mtfInput[mtfIdx] = "ok"
       THEN /\ mtfResult' = DictSet(mtfResult, Timeframes[mtfIdx], Summary)
            /\ mtfPc' = IF mtfIdx < Len(Timeframes) THEN "loop" ELSE "returned"
            /\ mtfIdx' = IF mtfIdx < Len(Timeframes) THEN mtfIdx + 1 ELSE mtfIdx
       ELSE /\ mtfResult' = mtfResult
            /\ mtfPc' = "raised"
            /\ mtfIdx' = mtfIdx
    /\ UNCHANGED <<mtfInput, auxVars, orchVars, riskVars, wsVars>>

\* one iteration of the loop: the try block stores the summary under the
\* label, or its except Exception stores the error marker; after the last
\* one, return result
MtfStep ==
    /\ mtfPc = "loop"
    /\ mtfResult' = DictSet(mtfResult, Timeframes[mtfIdx],
                            IF mtfInput[mtfIdx] = "ok"
                            THEN Summary
                            ELSE ErrorMarker(mtfInput[mtfIdx]))
    /\ mtfPc' = IF mtfIdx < Len(Timeframes) THEN "loop" ELSE "returned"
    /\ mtfIdx' = IF mtfIdx < Len(Timeframes) THEN mtfIdx + 1 ELSE mtfIdx
    /\ UNCHANGED <<mtfInput, auxVars, orchVars, riskVars, wsVars>>

NextData == MtfCall \/ MtfStep

\* fetch_multi_timeframe under any pattern of failures
SpecData == InitData /\ [][NextData]_vars

\* ------------------------------------------ the trade tape (ws_stream.py)

\* what an aggTrade message carries: the quantity "q", in units of 0.001
\* (the step of the symbol), and "m", whether the buyer is the maker
AggTrades == {[q |-> 6, m |-> FALSE], [q |-> 5, m |-> FALSE], [q |-> 5, m |-> TRUE]}

\* the time that passes between two events, in milliseconds
TickSteps == {5000, 5001}

\* the quotient n / d of two integers, d > 0, rounded to the nearest integer,
\* a tie to the even one: round(x, k) for a float x = n / (d * 10^k)
Round(n, d) ==
    LET q == n \div d
        r == n - q * d
    IN  IF 2 * r < d THEN q
        ELSE IF 2 * r > d THEN q + 1
        ELSE IF q % 2 = 0 THEN q ELSE q + 1

\* (mutant) deque.append without the bound
deque_append_Unbounded(buffer, entry) == Append(buffer, entry)

\* deque(maxlen=MaxTrades).append(entry): once the deque is full, the entry
\* at the opposite end is discarded
deque_append(buffer, entry) ==
    IF Len(buffer) >= MaxTrades
    THEN Append(Tail(buffer), entry)
    ELSE Append(buffer, entry)

\* (mutant) a trade at the cutoff is outside the window
InWindow_Strict(trade, cutoff) == trade.ts > cutoff

\* trade["ts"] >= cutoff
InWindow(trade, cutoff) == trade.ts >= cutoff

\* (mutant) the classification without its 20% margin
flow_NoMargin(buy_vol, sell_vol) ==
    IF buy_vol > sell_vol THEN "BUY"
    ELSE IF sell_vol > buy_vol THEN "SELL"
    ELSE "NEUTRAL"

\* "BUY" if buy_vol > sell_vol * 1.2 else "SELL" if sell_vol > buy_vol * 1.2
\* else "NEUTRAL"; x > y * 1.2 as 10 * x > 12 * y
flow(buy_vol, sell_vol) ==
    IF 10 * buy_vol > 12 * sell_vol THEN "BUY"
    ELSE IF 10 * sell_vol > 12 * buy_vol THEN "SELL"
    ELSE "NEUTRAL"

\* the accumulators before the loop: buy_vol = 0.0, sell_vol = 0.0, count = 0
NoVolume == [buy_vol |-> 0, sell_vol |-> 0, count |-> 0]

\* the loop over list(_agg_trades)
RECURSIVE FlowLoop(_, _, _)
FlowLoop(trades, cutoff, acc) ==
    IF trades = << >> THEN acc
    ELSE LET trade == Head(trades)
         IN  FlowLoop(Tail(trades), cutoff,
                 IF InWindow(trade, cutoff)
                 THEN [buy_vol |-> acc.buy_vol + (IF trade.is_buy THEN trade.qty ELSE 0),
                       sell_vol |-> acc.sell_vol + (IF trade.is_buy THEN 0 ELSE trade.qty),
                       count |-> acc.count + 1]
                 ELSE acc)

\* get_realtime_flow() at time t over the tape; the volumes are multiples
\* of 0.001, which round(x, 4) leaves as they are, and buy_pct_10s is in
\* tenths of a percent
get_realtime_flow(trades, t) ==
    LET acc == FlowLoop(trades, t - FLOW_WINDOW_MS, NoVolume)
        total == acc.buy_vol + acc.sell_vol
    IN  [made |-> TRUE,
         buy_vol_10s |-> acc.buy_vol,
         sell_vol_10s |-> acc.sell_vol,
         buy_pct_10s |-> IF total > 0 THEN Round(acc.buy_vol * 1000, total) ELSE 500,
         trade_count_10s |-> acc.count,
         flow |-> flow(acc.buy_vol, acc.sell_vol)]

\* the module at import, nothing called
InitAux ==
    /\ InitFeed
    /\ OrchIdle
    /\ RiskIdle
    /\ DataIdle
    /\ AuxIdle
    /\ mainPc = "idle"
    /\ mainAcc = "none"
    /\ ret = "none"
    /\ retOk = TRUE

\* time passes
Tick ==
    \E d \in TickSteps :
        /\ now + d <= MaxNow
        /\ now' = now + d
        /\ flowRet' = NoFlow
        /\ UNCHANGED <<agg_trades, evicted, bookVars, orderVars, indVars,
                       moreVars, mtfPc, mtfIdx, mtfInput, mtfResult, orchVars, riskVars,
                       wsVars>>

\* _on_message, the aggTrade branch: one entry appended, stamped with the
\* clock, "is_buy" the negation of "m"
FeedAggTrade ==
    \E msg \in AggTrades :
        /\ agg_trades' = deque_append(agg_trades,
                             [ts |-> now, qty |-> msg.q, is_buy |-> ~msg.m])
        /\ evicted' = (evicted \/ Len(agg_trades) >= MaxTrades)
        /\ flowRet' = NoFlow
        /\ UNCHANGED <<now, bookVars, orderVars, indVars,
                       moreVars, mtfPc, mtfIdx, mtfInput, mtfResult, orchVars, riskVars,
                       wsVars>>

\* a call of get_realtime_flow
GetFlow ==
    /\ flowRet' = get_realtime_flow(agg_trades, now)
    /\ UNCHANGED <<agg_trades, now, evicted, bookVars, orderVars, indVars,
                   moreVars, mtfPc, mtfIdx, mtfInput, mtfResult, orchVars, riskVars,
                       wsVars>>

NextFlow == Tick \/ FeedAggTrade \/ GetFlow

\* the tape under any arrival of trades and any query
SpecFlow == InitAux /\ [][NextFlow]_vars

\* ------------------------------------------- the order book (ws_stream.py)

\* the [price, quantity] levels a depth message can carry on each side, the
\* quantity in units of 0.001
BidLevels == {<<99, 5502>>, <<98, 5000>>, <<99, 0>>}
AskLevels == {<<101, 4498>>, <<102, 5000>>, <<101, 0>>}

\* the level lists of one side: none, one or two levels
LevelLists(levels) ==
    {<< >>} \cup {<<l>> : l \in levels} \cup {<<l, k>> : l \in levels, k \in levels}

\* sum(float(b[1]) for b in levels)
RECURSIVE SumQty(_)
SumQty(levels) ==
    IF levels = << >> THEN 0 ELSE Head(levels)[2] + SumQty(Tail(levels))

\* "BUY" if imbalance > 10 else "SELL" if imbalance < -10 else "NEUTRAL"
Pressure(imbalance) ==
    IF imbalance.num > PRESSURE_PCT * imbalance.den THEN "BUY"
    ELSE IF imbalance.num < (0 - PRESSURE_PCT) * imbalance.den THEN "SELL"
    ELSE "NEUTRAL"

\* (mutant) the depth branch keeping a best bid it has already
depth_update_KeepsBest(b, bids, asks) ==
    IF bids # << >> /\ asks # << >>
    THEN LET bid_vol == SumQty(bids)
             ask_vol == SumQty(asks)
             total == bid_vol + ask_vol
             imbalance == IF total > 0
                          THEN Ratio((bid_vol - ask_vol) * 100, total)
                          ELSE Ratio(0, 1)
         IN  [book_bids_vol |-> bid_vol,
              book_asks_vol |-> ask_vol,
              book_imbalance |-> imbalance,
              book_pressure |-> Pressure(imbalance),
              book_best_bid |-> IF b.book_best_bid = 0 THEN bids[1][1]
                                ELSE b.book_best_bid,
              book_best_ask |-> asks[1][1]]
    ELSE b

\* the depth branch of _on_message on the book fields b: nothing is written
\* unless both sides have a level; the volumes are multiples of 0.001, which
\* round(x, 3) leaves as they are; the imbalance is stored as computed
depth_update(b, bids, asks) ==
    IF bids # << >> /\ asks # << >>
    THEN LET bid_vol == SumQty(bids)
             ask_vol == SumQty(asks)
             total == bid_vol + ask_vol
             imbalance == IF total > 0
                          THEN Ratio((bid_vol - ask_vol) * 100, total)
                          ELSE Ratio(0, 1)
         IN  [book_bids_vol |-> bid_vol,
              book_asks_vol |-> ask_vol,
              book_imbalance |-> imbalance,
              book_pressure |-> Pressure(imbalance),
              book_best_bid |-> bids[1][1],
              book_best_ask |-> asks[1][1]]
    ELSE b

\* get_realtime_book() on the book fields b, under _lock; imbalance_pct is
\* round(book_imbalance, 1), in tenths of a percent
get_realtime_book(b) ==
    [made |-> TRUE,
     bid_volume |-> b.book_bids_vol,
     ask_volume |-> b.book_asks_vol,
     imbalance_pct |-> Round(b.book_imbalance.num * 10, b.book_imbalance.den),
     pressure |-> b.book_pressure,
     best_bid |-> b.book_best_bid,
     best_ask |-> b.book_best_ask]

\* _on_message, the depth branch, under _lock
FeedDepth ==
    \E bids \in LevelLists(BidLevels), asks \in LevelLists(AskLevels) :
        /\ book' = depth_update(book, bids, asks)
        /\ lastDepth' = [made |-> TRUE, bids |-> bids, asks |-> asks]
        /\ bookRet' = NoBook
        /\ UNCHANGED <<tapeVars, orderVars, indVars,
                       moreVars, mtfPc, mtfIdx, mtfInput, mtfResult, orchVars, riskVars,
                       wsVars>>

\* a call of get_realtime_book
GetBook ==
    /\ bookRet' = get_realtime_book(book)
    /\ UNCHANGED <<book, lastDepth, tapeVars, orderVars, indVars,
                   moreVars, mtfPc, mtfIdx, mtfInput, mtfResult, orchVars, riskVars,
                       wsVars>>

NextBook == FeedDepth \/ GetBook

\* the book under any sequence of depth messages and any query
SpecBook == InitAux /\ [][NextBook]_vars

\* ------------------------------------- place_market_order (execution.py)

\* the quantity the caller asks for, in units of 0.0001
Quantities == {15, 150, 1000}

\* what a _post call does: it returns the order, or it raises; an exception
\* is an HTTP error of raise_for_status (its status) or a failure without a
\* response (status 0), and its text, which carries the request's URL with
\* the timestamp and the signature, contains "400" or does not; the text of
\* an HTTP 400 error starts with "400"
PostOutcomes ==
    {[ok |-> TRUE, status |-> 200, text400 |-> FALSE],
     [ok |-> FALSE, status |-> 400, text400 |-> TRUE],
     [ok |-> FALSE, status |-> 500, text400 |-> FALSE],
     [ok |-> FALSE, status |-> 500, text400 |-> TRUE],
     [ok |-> FALSE, status |-> 0, text400 |-> FALSE],
     [ok |-> FALSE, status |-> 0, text400 |-> TRUE]}

\* _round_qty: math.floor(qty * factor) / factor at the precision of the
\* symbol, three decimals
round_qty(qty) == (qty \div 10) * 10

\* quantity * 0.5, for a quantity of three decimals
Half(qty) == qty \div 2

\* place_market_order(side, quantity): quantity = _round_qty(quantity)
OrderCall ==
    \E quantity \in Quantities :
        /\ ordPc = "idle"
        /\ ordPc' = "try"
        /\ ordAttempt' = 0
        /\ ordQty' = round_qty(quantity)
        /\ ordLog' = << >>
        /\ openQty' = quantity
        /\ openRet' = NoOpen
        /\ UNCHANGED <<tapeVars, bookVars, indVars,
                       moreVars, mtfPc, mtfIdx, mtfInput, mtfResult, orchVars, riskVars,
                       wsVars>>

\* one iteration of "for attempt in range(3)": _post returns and so does the
\* function, or it raises and the handler halves the quantity when
\* attempt < 2 and "400" in str(exc), and re-raises otherwise
OrderPost ==
    \E outcome \in PostOutcomes :
        /\ ordPc = "try"
        /\ ordLog' = Append(ordLog, [quantity |-> ordQty, outcome |-> outcome])
        /\ IF outcome.ok
           THEN ordPc' = "returned" /\ UNCHANGED <<ordAttempt, ordQty>>
           ELSE IF ordAttempt < MAX_ATTEMPTS - 1 /\ outcome.text400
           THEN /\ ordQty' = round_qty(Half(ordQty))
                /\ ordAttempt' = ordAttempt + 1
                /\ ordPc' = "try"
           ELSE ordPc' = "raised" /\ UNCHANGED <<ordAttempt, ordQty>>
        /\ UNCHANGED <<openQty, openRet, tapeVars, bookVars, indVars,
                       moreVars, mtfPc, mtfIdx, mtfInput, mtfResult, orchVars, riskVars,
                       wsVars>>

\* the quantity place_stop_loss and place_take_profit send for the
\* quantity they are given, 0 standing for an order that failed
Protective(quantity) == {0, round_qty(quantity)}

\* execute_open after its market entry returned: the stop-loss and the
\* take-profit are placed for its quantity, a failure of either being
\* printed, and the summary is returned
OpenReturn ==
    /\ ordPc = "returned"
    /\ ordPc' = "opened"
    /\ \E sl \in Protective(openQty), tp \in Protective(openQty) :
          openRet' = [made |-> TRUE,
                      quantity |-> round_qty(openQty),
                      sl_quantity |-> sl,
                      tp_quantity |-> tp]
    /\ UNCHANGED <<ordAttempt, ordQty, ordLog, openQty, tapeVars, bookVars, indVars,
                   moreVars, mtfPc, mtfIdx, mtfInput, mtfResult, orchVars, riskVars,
                   wsVars>>

NextOrder == OrderCall \/ OrderPost \/ OpenReturn

\* one call of place_market_order, by execute_open, under any outcome of
\* its requests
SpecOrder == InitAux /\ [][NextOrder]_vars

\* --------------------------------------- the indicator engine (data.py)

\* the candle histories the engine is given, by the shape of their closes
Shapes == {"rising", "falling", "flat", "zigzag", "late_dip"}

\* the close of bar i of a history of one shape; "late_dip" rises but for
\* one fall, at bar 17
Close(shape, i) ==
    CASE shape = "rising" -> 100 + i
      [] shape = "falling" -> 200 - i
      [] shape = "flat" -> 100
      [] shape = "zigzag" -> 100 + (i % 2)
      [] shape = "late_dip" -> 100 + 2 * i - (IF i >= 17 THEN 3 ELSE 0)

History(shape, n) == [i \in 1..n |-> Close(shape, i)]

\* the values an EMA of the latest row can have, in units of 0.001
EmaValues == {99996, 100000, 100004}

\* ema9, ema20, ema50 of the latest row of a history: equal to the close for
\* a single bar and for flat closes, ordered by their span for closes that
\* only rise or only fall, in any order otherwise
EmasOf(shape, n) ==
    {e \in EmaValues \X EmaValues \X EmaValues :
        CASE n <= 1 \/ shape = "flat" -> e[1] = 100000 /\ e[2] = 100000 /\ e[3] = 100000
          [] n > 1 /\ shape = "rising" -> e[1] > e[2] /\ e[2] > e[3]
          [] n > 1 /\ shape = "falling" -> e[1] < e[2] /\ e[2] < e[3]
          [] OTHER -> TRUE}

\* A float column is kept by what the engine's formulas depend on: "nan",
\* "zero", "pos" (a positive number) or "inf".

\* gain = delta.clip(lower=0) and loss = -delta.clip(upper=0) at row i > 1,
\* delta = close.diff()
gain(c, i) == IF c[i] > c[i - 1] THEN c[i] - c[i - 1] ELSE 0
loss(c, i) == IF c[i] < c[i - 1] THEN c[i - 1] - c[i] ELSE 0

\* avg_gain at row i: ewm(alpha=1/14, min_periods=14, adjust=False).mean()
\* of the gains of rows 2..i (row 1 has none): NaN below 14 of them, and a
\* weighted mean with positive weights of non-negative numbers after that
avg_gain(c, i) ==
    IF i - 1 < RSI_PERIOD THEN "nan"
    ELSE IF \E j \in 2..i : gain(c, j) > 0 THEN "pos" ELSE "zero"

\* avg_loss at row i, in the same way
avg_loss(c, i) ==
    IF i - 1 < RSI_PERIOD THEN "nan"
    ELSE IF \E j \in 2..i : loss(c, j) > 0 THEN "pos" ELSE "zero"

\* x.replace(0, np.nan)
replace_zero(x) == IF x = "zero" THEN "nan" ELSE x

\* a / b for non-negative floats
Div(a, b) ==
    IF a = "nan" \/ b = "nan" THEN "nan"
    ELSE IF b = "zero" THEN (IF a = "zero" THEN "nan" ELSE "inf")
    ELSE a

\* rs = avg_gain / avg_loss.replace(0, np.nan)
rs(c, i) == Div(avg_gain(c, i), replace_zero(avg_loss(c, i)))

\* df["rsi14"] = 100 - (100 / (1 + rs)) at row i: "nan", "0", "100", or
\* "mid", a number strictly between the two
rsi14(c, i) ==
    CASE rs(c, i) = "nan" -> "nan"
      [] rs(c, i) = "zero" -> "0"
      [] rs(c, i) = "inf" -> "100"
      [] OTHER -> "mid"

\* rsi14 at row i is the number it is at row i - 1: both are 0, or the close
\* did not move, which scales both averages by 13/14
rsi_same(c, i) ==
    \/ rsi14(c, i) = "0" /\ rsi14(c, i - 1) = "0"
    \/ rsi14(c, i) = "mid" /\ rsi14(c, i - 1) = "mid" /\ c[i] = c[i - 1]

\* stoch_rsi at row i: (rsi - rsi_min) / (rsi_max - rsi_min).replace(0, nan)
\* with rsi_min and rsi_max over rolling(14), NaN unless the window holds 14
\* numbers
stoch_rsi(c, i) ==
    IF /\ i >= STOCH_WINDOW
       /\ \A j \in (i - STOCH_WINDOW + 1)..i : rsi14(c, j) # "nan"
       /\ ~(\A j \in (i - STOCH_WINDOW + 2)..i : rsi_same(c, j))
    THEN "num" ELSE "nan"

\* (mutant) stoch_rsi_k without its 3-row mean
stoch_rsi_k_NoSmoothing(c, i) == stoch_rsi(c, i)

\* df["stoch_rsi_k"] at row i: stoch_rsi.rolling(3).mean() * 100
stoch_rsi_k(c, i) ==
    IF /\ i >= STOCH_SMOOTH
       /\ \A j \in (i - STOCH_SMOOTH + 1)..i : stoch_rsi(c, j) # "nan"
    THEN "num" ELSE "nan"

\* df["stoch_rsi_d"] at row i: stoch_rsi_k.rolling(3).mean()
stoch_rsi_d(c, i) ==
    IF /\ i >= STOCH_SMOOTH
       /\ \A j \in (i - STOCH_SMOOTH + 1)..i : stoch_rsi_k(c, j) # "nan"
    THEN "num" ELSE "nan"

\* (mutant) the trend with ties counted as order
ema_trend_NonStrict(ema9, ema20, ema50) ==
    IF ema9 >= ema20 /\ ema20 >= ema50 THEN "BULLISH"
    ELSE IF ema9 <= ema20 /\ ema20 <= ema50 THEN "BEARISH"
    ELSE "MIXED"

\* "BULLISH" if ema9 > ema20 > ema50 else "BEARISH" if ema9 < ema20 < ema50
\* else "MIXED"
ema_trend(ema9, ema20, ema50) ==
    IF ema9 > ema20 /\ ema20 > ema50 THEN "BULLISH"
    ELSE IF ema9 < ema20 /\ ema20 < ema50 THEN "BEARISH"
    ELSE "MIXED"

\* x if pd.notna(x) else None
NotNaOrNone(x) == IF x = "nan" THEN "null" ELSE x

\* the dict extract_indicators builds from the latest row; the EMAs are
\* rounded to two decimals, the trend compares them as they are
extract_indicators(c, e) ==
    [made |-> TRUE,
     ema9 |-> Round(e[1], 10),
     ema20 |-> Round(e[2], 10),
     ema50 |-> Round(e[3], 10),
     rsi14 |-> rsi14(c, Len(c)),
     stoch_rsi_k |-> NotNaOrNone(stoch_rsi_k(c, Len(c))),
     stoch_rsi_d |-> NotNaOrNone(stoch_rsi_d(c, Len(c))),
     ema_trend |-> ema_trend(e[1], e[2], e[3])]

\* a candle history fetched, of any length up to MaxBars
InitInd ==
    /\ InitFeed
    /\ OrchIdle
    /\ RiskIdle
    /\ DataIdle
    /\ TapeIdle
    /\ BookIdle
    /\ OrderIdle
    /\ MoreIdle
    /\ mainPc = "idle"
    /\ mainAcc = "none"
    /\ ret = "none"
    /\ retOk = TRUE
    /\ indPc = "idle"
    /\ \E shape \in Shapes, n \in 0..MaxBars :
          /\ candles = History(shape, n)
          /\ emas \in EmasOf(shape, n)
    /\ snapshot = NoSnapshot

\* compute_indicators(df): the columns are added, whatever the length
IndCompute ==
    /\ indPc = "idle"
    /\ indPc' = "computed"
    /\ UNCHANGED <<candles, emas, snapshot, tapeVars, bookVars, orderVars,
                   moreVars, mtfPc, mtfIdx, mtfInput, mtfResult, orchVars, riskVars,
                       wsVars>>

\* extract_indicators(df): latest = df.iloc[-1] raises IndexError on a frame
\* without rows
IndExtract ==
    /\ indPc = "computed"
    /\ IF Len(candles) = 0
       THEN indPc' = "raised" /\ snapshot' = snapshot
       ELSE indPc' = "extracted" /\ snapshot' = extract_indicators(candles, emas)
    /\ UNCHANGED <<candles, emas, tapeVars, bookVars, orderVars,
                   moreVars, mtfPc, mtfIdx, mtfInput, mtfResult, orchVars, riskVars,
                       wsVars>>

NextInd == IndCompute \/ IndExtract

\* the engine on one candle history
SpecInd == InitInd /\ [][NextInd]_vars

\* -------------------------------------------------------------- Init

InitApi ==
    /\ InitFeed
    /\ OrchIdle
    /\ DataIdle
    /\ AuxIdle
    /\ RiskIdle
    /\ mainPc = "idle"
    /\ mainAcc = "none"
    /\ ret = "none"
    /\ retOk = TRUE

\* ------------------------------------------------------ the feed thread

\* _run: "_ws_instance.run_forever" looks the global up; None raises
\* AttributeError, which the except clause swallows
FeedLoad ==
    /\ feedPc = "loop"
    /\ feedPc' = IF ws_instance = "none" THEN "clear" ELSE "run_forever"
    /\ UNCHANGED <<appVars, stateVars, lock, lifeVars, feedMsg, mainVars, histVars>>

\* run_forever connects: the socket opens and on_open is called, or the
\* attempt fails and run_forever returns (through on_close) or raises
FeedConnect ==
    /\ feedPc = "run_forever"
    /\ subscribed' = FALSE
    /\ \/ sock' = "open" /\ feedPc' = "on_open"
       \/ sock' = "closed" /\ feedPc' \in {"on_close", "clear"}
    /\ UNCHANGED <<appVars, stateVars, lock, ws_instance, threads, apps, feedMsg, mainVars,
                   closes, unacked, coalesced, startCalls, stopDone>>

\* _on_open: ws.send(subscribe); on a closed socket send raises and the
\* callback ends there
FeedOnOpenSend ==
    /\ feedPc = "on_open"
    /\ IF sock = "open"
       THEN subscribed' = TRUE /\ feedPc' = "set_connected"
       ELSE subscribed' = subscribed /\ feedPc' = "dispatch"
    /\ UNCHANGED <<appVars, stateVars, lock, lifeVars, feedMsg, mainVars,
                   closes, unacked, coalesced, startCalls, stopDone>>

\* _on_open: with _lock: _state["connected"] = True
FeedOnOpenConnected ==
    /\ feedPc = "set_connected"
    /\ lock = "free"
    /\ connected' = TRUE
    /\ feedPc' = "dispatch"
    /\ UNCHANGED <<appVars, kline_closed, kline_close_ack, lock, lifeVars, feedMsg,
                   mainVars, histVars>>

\* run_forever's read loop delivers one raw message to _on_message; a
\* message that is not JSON returns before the lock is taken
FeedRecv(m) ==
    /\ feedPc = "dispatch"
    /\ sock = "open"
    /\ (m.e = "kline" /\ m.x) => closes[m.i] < MaxCloses
    /\ IF m.e = "invalid"
       THEN UNCHANGED feedVars
       ELSE feedMsg' = m /\ feedPc' = "on_message"
    /\ UNCHANGED <<appVars, stateVars, lock, lifeVars, mainVars, histVars>>

\* the connection ends (remote close, error, or the socket stop() closed):
\* run_forever returns through on_close, or raises
FeedDisconnect ==
    /\ feedPc = "dispatch"
    /\ sock' = "closed"
    /\ feedPc' \in {"on_close", "clear"}
    /\ UNCHANGED <<appVars, stateVars, lock, ws_instance, threads, apps, feedMsg,
                   mainVars, histVars>>

\* _on_message: with _lock:
FeedOnMessageLock ==
    /\ feedPc = "on_message"
    /\ lock = "free"
    /\ lock' = "feed"
    /\ feedPc' = "handle"
    /\ UNCHANGED <<appVars, stateVars, lifeVars, feedMsg, mainVars, histVars>>

\* _on_message, kline branch up to kline_*_closed = True; the other
\* branches touch no close flag (what they write to the tape and the book
\* is FeedAggTrade and FeedDepth)
FeedHandle ==
    /\ feedPc = "handle"
    /\ IF feedMsg.e = "kline" /\ feedMsg.x /\ feedMsg.i \in Intervals
       THEN /\ kline_closed' = ClosedFlags(kline_closed, feedMsg.i)
            /\ feedPc' = "set_ack"
       ELSE /\ kline_closed' = kline_closed
            /\ feedPc' = "unlock"
    /\ UNCHANGED <<appVars, kline_close_ack, connected, lock, lifeVars, feedMsg,
                   mainVars, histVars>>

\* _on_message: kline_*_close_ack = False; the close event is processed
FeedSetAck ==
    /\ feedPc = "set_ack"
    /\ kline_close_ack' = UnackedFlags(kline_close_ack, feedMsg.i)
    /\ closes' = [closes EXCEPT ![feedMsg.i] = @ + 1]
    /\ unacked' = [unacked EXCEPT ![feedMsg.i] = @ + 1]
    /\ coalesced' = [coalesced EXCEPT ![feedMsg.i] = FALSE]
    /\ feedPc' = "unlock"
    /\ UNCHANGED <<appVars, kline_closed, connected, lock, lifeVars, feedMsg, mainVars,
                   startCalls, stopDone, subscribed>>

\* _on_message: the with block ends
FeedUnlock ==
    /\ feedPc = "unlock"
    /\ lock' = "free"
    /\ feedPc' = "dispatch"
    /\ feedMsg' = NoMsg
    /\ UNCHANGED <<appVars, stateVars, lifeVars, mainVars, histVars>>

\* _on_close: with _lock: _state["connected"] = False
FeedOnClose ==
    /\ feedPc = "on_close"
    /\ lock = "free"
    /\ connected' = FALSE
    /\ feedPc' = "clear"
    /\ UNCHANGED <<appVars, kline_closed, kline_close_ack, lock, lifeVars, feedMsg,
                   mainVars, histVars>>

\* (mutant) _run goes to its sleep without clearing the flag
FeedClear_KeepsFlag ==
    /\ feedPc = "clear"
    /\ feedPc' = "backoff"
    /\ UNCHANGED <<appVars, stateVars, lock, lifeVars, feedMsg, mainVars, histVars>>

\* _run after run_forever: with _lock: _state["connected"] = False
FeedClear ==
    /\ feedPc = "clear"
    /\ lock = "free"
    /\ connected' = FALSE
    /\ feedPc' = "backoff"
    /\ UNCHANGED <<appVars, kline_closed, kline_close_ack, lock, lifeVars, feedMsg,
                   mainVars, histVars>>

\* _run: time.sleep(3) ends, next iteration of while True
FeedBackoff ==
    /\ feedPc = "backoff"
    /\ feedPc' = "loop"
    /\ UNCHANGED <<appVars, stateVars, lock, lifeVars, feedMsg, mainVars, histVars>>

FeedThread ==
    \/ FeedLoad
    \/ FeedConnect
    \/ FeedOnOpenSend
    \/ FeedOnOpenConnected
    \/ \E m \in Msgs : FeedRecv(m)
    \/ FeedDisconnect
    \/ FeedOnMessageLock
    \/ FeedHandle
    \/ FeedSetAck
    \/ FeedUnlock
    \/ FeedOnClose
    \/ FeedClear
    \/ FeedBackoff

\* ------------------------------------- the main thread as an API client

\* start(): a no-op while the thread is alive; otherwise a new WebSocketApp
\* and a new daemon thread running _run
start ==
    /\ startCalls' = startCalls + 1
    /\ IF StartAlreadyRunning
       THEN UNCHANGED <<lifeVars, feedPc>>
       ELSE /\ ws_instance' = "app"
            /\ sock' = "closed"
            /\ apps' = apps + 1
            /\ threads' = threads + 1
            /\ feedPc' = "loop"
    /\ UNCHANGED <<stateVars, lock, feedMsg,
                   closes, unacked, coalesced, stopDone, subscribed>>

\* the client calls start()
ApiStart ==
    /\ mainPc = "idle"
    /\ startCalls < MaxStartCalls
    /\ start
    /\ UNCHANGED <<appVars, mainVars>>

\* stop(): if _ws_instance: _ws_instance.close()
ApiStopClose ==
    /\ mainPc = "idle"
    /\ startCalls > 0
    /\ IF ws_instance # "none"
       THEN sock' = "closed" /\ mainPc' = "stop_clear" /\ stopDone' = stopDone
       ELSE sock' = sock /\ mainPc' = mainPc /\ stopDone' = TRUE
    /\ UNCHANGED <<appVars, stateVars, lock, ws_instance, threads, apps, feedVars,
                   mainAcc, ret, retOk,
                   closes, unacked, coalesced, startCalls, subscribed>>

\* stop(): _ws_instance = None
ApiStopClear ==
    /\ mainPc = "stop_clear"
    /\ ws_instance' = "none"
    /\ stopDone' = TRUE
    /\ mainPc' = "idle"
    /\ UNCHANGED <<appVars, stateVars, lock, sock, threads, apps, feedVars,
                   mainAcc, ret, retOk,
                   closes, unacked, coalesced, startCalls, subscribed>>

\* ack_candle_close() / ack_1m_candle_close(): with _lock: ..._ack = True
ack_candle_close(i) ==
    /\ lock = "free"
    /\ kline_close_ack' = AckedFlags(kline_close_ack, i)
    /\ coalesced' = [coalesced EXCEPT ![i] = unacked[i] >= 2]
    /\ unacked' = [unacked EXCEPT ![i] = 0]
    /\ UNCHANGED <<kline_closed, connected, lock, lifeVars, feedVars,
                   closes, startCalls, stopDone, subscribed>>

\* the client calls an ack
ApiAck(i) ==
    /\ mainPc = "idle"
    /\ ack_candle_close(i)
    /\ UNCHANGED <<appVars, mainVars>>

\* an accessor is entered; those written "with _lock:" take the lock first
ApiEnter(a) ==
    /\ mainPc = "idle"
    /\ IF a \in LockedAccessors
       THEN lock = "free" /\ lock' = "main"
       ELSE lock' = lock
    /\ mainPc' = "read"
    /\ mainAcc' = a
    /\ UNCHANGED <<appVars, stateVars, lifeVars, feedVars, ret, retOk, histVars>>

\* the accessor reads _state and returns; is_*candle_closed reads the closed
\* flag first, and its "and" returns False at once when that is False
ApiRead ==
    /\ mainPc = "read"
    /\ IF mainAcc \in {"is_candle_closed", "is_1m_candle_closed"}
       THEN IF ClosedOperand(AccInterval(mainAcc))
            THEN mainPc' = "read_ack" /\ UNCHANGED <<mainAcc, ret, retOk>>
            ELSE /\ mainPc' = "return"
                 /\ ret' = "false"
                 /\ retOk' = (retOk /\ unacked[AccInterval(mainAcc)] = 0)
                 /\ mainAcc' = mainAcc
       ELSE mainPc' = "idle" /\ mainAcc' = "none" /\ UNCHANGED <<ret, retOk>>
    /\ lock' = IF lock = "main" THEN "free" ELSE lock
    /\ UNCHANGED <<appVars, stateVars, lifeVars, feedVars, histVars>>

\* is_*candle_closed: the second operand, not _state["kline_*_close_ack"]
ApiReadAck ==
    /\ mainPc = "read_ack"
    /\ ret' = IF AckOperand(AccInterval(mainAcc)) THEN "true" ELSE "false"
    /\ retOk' = (retOk /\ (AckOperand(AccInterval(mainAcc))
                            <=> unacked[AccInterval(mainAcc)] > 0))
    /\ mainPc' = "return"
    /\ mainAcc' = mainAcc
    /\ UNCHANGED <<appVars, stateVars, lock, lifeVars, feedVars, histVars>>

\* is_*candle_closed returns to the caller
ApiReturn ==
    /\ mainPc = "return"
    /\ mainPc' = "idle"
    /\ mainAcc' = "none"
    /\ ret' = "none"
    /\ UNCHANGED <<appVars, stateVars, lock, lifeVars, feedVars, retOk, histVars>>

ApiClient ==
    \/ ApiStart
    \/ ApiStopClose
    \/ ApiStopClear
    \/ \E i \in Intervals : ApiAck(i)
    \/ \E a \in Accessors : ApiEnter(a)
    \/ ApiRead
    \/ ApiReadAck
    \/ ApiReturn

NextApi == FeedThread \/ ApiClient

\* the feed module under any single-threaded client
SpecApi == InitApi /\ [][NextApi]_vars

\* ------------------------------ get_decision's requests (gemini_client.py)

\* max_retries of the Pro call in get_decision
PRO_RETRIES == 3

\* max_retries of the Flash call in get_decision
FLASH_RETRIES == 2

\* config.GEMINI_PRO_MODEL and config.GEMINI_FLASH_MODEL
Models == {"pro", "flash"}

\* the texts is_retryable looks for in str(exc)
RetryCodes == {"503", "429", "500", "UNAVAILABLE", "RESOURCE_EXHAUSTED"}

\* what one generate_content call does: it returns a response with a text
\* or with text None, or raises; err is what of the texts below str(exc)
\* contains
CallOutcomes ==
    {[kind |-> "text", err |-> {}], [kind |-> "empty", err |-> {}]}
    \cup {[kind |-> "raise", err |-> e] :
             e \in {{"503", "UNAVAILABLE"}, {"429", "RESOURCE_EXHAUSTED"},
                    {"400", "INVALID_ARGUMENT"}, {}}}

\* is_retryable = any(code in err_str for code in (...))
is_retryable(err) == err \cap RetryCodes # {}

\* max_retries of the call for a model
max_retries(model) == IF model = "pro" THEN PRO_RETRIES ELSE FLASH_RETRIES

\* (mutant) the last attempt is retried as well
MayRetry_OnceMore(attempt, max) == attempt < max

\* attempt < max_retries - 1
MayRetry(attempt, max) == attempt < max - 1

\* the outcome makes _call_with_retry go to the next attempt
Retried(outcome, attempt, max) ==
    /\ MayRetry(attempt, max)
    /\ \/ outcome.kind = "empty"
       \/ outcome.kind = "raise" /\ is_retryable(outcome.err)

\* get_decision builds the payload and calls _call_with_retry for Pro;
\* _get_client() returns the client or genai.Client raises
CallStart ==
    /\ callPc = "idle"
    /\ callPc' \in {"pro", "raised"}
    /\ callAttempt' = 0
    /\ callLog' = << >>
    /\ callRet' = "none"
    /\ UNCHANGED <<tapeVars, bookVars, orderVars, indVars, gateVars, msgVars,
                   mtfPc, mtfIdx, mtfInput, mtfResult, orchVars, riskVars, wsVars>>

\* one iteration of "for attempt in range(max_retries)": the text is
\* returned; or the loop goes on; or None is returned, after which
\* get_decision falls back from Pro to Flash, or returns None after Flash
CallRequest ==
    \E outcome \in CallOutcomes :
        /\ callPc \in Models
        /\ callLog' = Append(callLog, [model |-> callPc, outcome |-> outcome])
        /\ IF outcome.kind = "text"
           THEN callPc' = "returned" /\ callRet' = "text"
                /\ callAttempt' = callAttempt
           ELSE IF Retried(outcome, callAttempt, max_retries(callPc))
           THEN callPc' = callPc /\ callRet' = callRet
                /\ callAttempt' = callAttempt + 1
           ELSE IF callPc = "pro"
           THEN callPc' = "flash" /\ callRet' = "None" /\ callAttempt' = 0
           ELSE callPc' = "returned" /\ callRet' = "None"
                /\ callAttempt' = callAttempt
        /\ UNCHANGED <<tapeVars, bookVars, orderVars, indVars, gateVars, msgVars,
                       mtfPc, mtfIdx, mtfInput, mtfResult, orchVars, riskVars, wsVars>>

NextCall == CallStart \/ CallRequest

\* one call of get_decision under any outcome of its requests
SpecCall == InitAux /\ [][NextCall]_vars

\* --------------- the gate between entries and closes (main.py, risk.py)

\* the quantities place_market_order can have had accepted when it returns:
\* the rounded quantity, or what two halvings after "400" errors make of it
AcceptedQuantities(quantity) ==
    {round_qty(quantity),
     round_qty(Half(round_qty(quantity))),
     round_qty(Half(round_qty(Half(round_qty(quantity)))))} \ {0}

\* account["positions"] as fetch_account_info reports the position held
PositionsHeld == IF held = 0 THEN << >> ELSE <<[side |-> "LONG"]>>

\* the risk manager of main(), no position on the account
InitGate ==
    /\ InitFeed
    /\ OrchIdle
    /\ DataIdle
    /\ TapeIdle /\ BookIdle /\ OrderIdle /\ IndIdle /\ CallIdle /\ MsgIdle
    /\ mainPc = "idle"
    /\ mainAcc = "none"
    /\ ret = "none"
    /\ retOk = TRUE
    /\ starting_balance = 1000
    /\ consecutive_losses = 0
    /\ riskCall = NoCall
    /\ pnlLog = << >>
    /\ held = 0
    /\ shut = FALSE

\* a cycle whose decision is an entry: validate is asked with the account's
\* balance and positions; an approved entry goes to execute_open, whose
\* market order raises or is accepted, at the quantity or a reduced one
GateEntry ==
    \E b \in Balances, quantity \in Quantities :
        /\ riskCall' = [made |-> TRUE,
                        decision |-> SoundEntry,
                        current_balance |-> b,
                        open_positions |-> PositionsHeld,
                        result |-> validate(SoundEntry, b, PositionsHeld)]
        /\ IF validate(SoundEntry, b, PositionsHeld).allowed
           THEN held' \in {held} \cup AcceptedQuantities(quantity)
           ELSE held' = held
        /\ UNCHANGED <<starting_balance, consecutive_losses, pnlLog, shut,
                       tapeVars, bookVars, orderVars, indVars, callVars, msgVars,
                       mtfPc, mtfIdx, mtfInput, mtfResult, orchVars, wsVars>>

\* execute_close returns a result: its market order was accepted
Closed(accepted) == accepted > 0

\* a CLOSE, of a cycle or of the quick check: execute_close returns None
\* without a position; otherwise its market order for the whole position
\* raises or is accepted, at the quantity or a reduced one, and after a
\* result fetch_account_info raises or the profit or loss is recorded
GateClose ==
    /\ riskCall' = NoCall
    /\ \E accepted \in {0} \cup AcceptedQuantities(held) :
          /\ held' = held - accepted
          /\ \/ UNCHANGED <<consecutive_losses, pnlLog, shut>>
             \/ /\ Closed(accepted)
                /\ \E pnl \in Pnls :
                      /\ pnl < 0 => consecutive_losses < MaxLosses
                      /\ record_trade_result(pnl)
                      /\ pnlLog' = LastCalls(Append(pnlLog, pnl))
                /\ shut' = (shut \/ consecutive_losses' >= MAX_CONSECUTIVE_LOSSES)
    /\ UNCHANGED <<starting_balance,
                   tapeVars, bookVars, orderVars, indVars, callVars, msgVars,
                   mtfPc, mtfIdx, mtfInput, mtfResult, orchVars, wsVars>>

NextGate == GateEntry \/ GateClose

\* the entries and closes of the orchestrator on one account
SpecGate == InitGate /\ [][NextGate]_vars

\* ----------------------------------- _on_message as a whole (ws_stream.py)

\* Raw messages, by what json.loads and _on_message make of them: text that
\* is not JSON; JSON that is not an object (an array, null, a number); a
\* kline event, with its "k" or without; a trade; a depth update; an object
\* of no event, as the answer to the subscription
RawMessages ==
    {[kind |-> k, i |-> "", x |-> FALSE, p |-> 0, bids |-> << >>, asks |-> << >>] :
        k \in {"invalid", "array", "kline_no_k", "result"}}
    \cup {[kind |-> "kline", i |-> i, x |-> x, p |-> 100, bids |-> << >>,
           asks |-> << >>] : i \in {"5m", "1m", "15m"}, x \in BOOLEAN}
    \cup {[kind |-> "aggTrade", i |-> "", x |-> TRUE, p |-> 101, bids |-> << >>,
           asks |-> << >>]}
    \cup {[kind |-> "depthUpdate", i |-> "", x |-> FALSE, p |-> 0, bids |-> b,
           asks |-> a] : b \in {<< >>, << <<99, 5502>> >>},
                         a \in {<< >>, << <<101, 4498>> >>}}

\* json.loads(raw_msg) returns
IsJson(raw) == raw.kind # "invalid"

\* the decoded message is a dict, so that msg.get exists
IsObject(raw) == raw.kind \notin {"invalid", "array"}

\* event = msg.get("e", "")
Event(raw) ==
    CASE raw.kind \in {"kline", "kline_no_k"} -> "kline"
      [] raw.kind = "aggTrade" -> "aggTrade"
      [] raw.kind = "depthUpdate" -> "depthUpdate"
      [] OTHER -> ""

\* the kline branch wrote its fields: msg["k"] exists
KlineWritten(raw) == raw.kind = "kline"

\* the kline branch signals a close: k["x"] and an interval that is tracked
CloseSignalled(raw) == KlineWritten(raw) /\ raw.x /\ raw.i \in Intervals

\* _on_message(ws, raw_msg): text that is not JSON returns at once; a
\* decoded value without .get raises before the lock is taken; otherwise,
\* under the lock, last_msg_ts is stamped and the branch of the event runs
\* (the kline branch raising KeyError without "k")
OnMessage ==
    \E raw \in RawMessages :
        /\ rawMsg' = raw
        /\ msgRet' = IF IsJson(raw) /\ (~IsObject(raw) \/ raw.kind = "kline_no_k")
                     THEN "raised" ELSE "returned"
        /\ last_msg_ts' = IF IsJson(raw) /\ IsObject(raw) THEN now ELSE last_msg_ts
        /\ kline' = IF IsJson(raw) /\ IsObject(raw) /\ KlineWritten(raw)
                    THEN [set |-> TRUE, close |-> raw.p, is_closed |-> raw.x]
                    ELSE kline
        /\ price' = IF IsJson(raw) /\ IsObject(raw)
                       /\ (KlineWritten(raw) \/ Event(raw) = "aggTrade")
                    THEN [value |-> raw.p, ts |-> now]
                    ELSE price
        /\ kline_closed' = IF IsJson(raw) /\ IsObject(raw) /\ CloseSignalled(raw)
                           THEN ClosedFlags(kline_closed, raw.i)
                           ELSE kline_closed
        /\ kline_close_ack' = IF IsJson(raw) /\ IsObject(raw) /\ CloseSignalled(raw)
                              THEN UnackedFlags(kline_close_ack, raw.i)
                              ELSE kline_close_ack
        /\ IF IsJson(raw) /\ IsObject(raw) /\ Event(raw) = "aggTrade"
           THEN /\ agg_trades' = deque_append(agg_trades,
                                     [ts |-> now, qty |-> 5, is_buy |-> ~raw.x])
                /\ evicted' = (evicted \/ Len(agg_trades) >= MaxTrades)
           ELSE UNCHANGED <<agg_trades, evicted>>
        /\ IF IsJson(raw) /\ IsObject(raw) /\ Event(raw) = "depthUpdate"
           THEN /\ book' = depth_update(book, raw.bids, raw.asks)
                /\ lastDepth' = [made |-> TRUE, bids |-> raw.bids, asks |-> raw.asks]
           ELSE UNCHANGED <<book, lastDepth>>
        /\ UNCHANGED <<now, flowRet, bookRet, orderVars, indVars, callVars, gateVars,
                       mtfPc, mtfIdx, mtfInput, mtfResult, orchVars, riskVars,
                       connected, lock, lifeVars, feedVars, mainVars, histVars>>

NextMsg == Tick \/ OnMessage

\* the handler under any sequence of raw messages, the clock going on
SpecMsg == InitAux /\ [][NextMsg]_vars

\* -------------------------------------------- the orchestrator (main.py)

\* config.MAX_PYRAMID_ADDS
MAX_PYRAMID_ADDS == 2

\* the balance fetch_account_info reports
OrchBalances == {1000}

\* what fetch_account_info returns
OrchAccounts == [fetched : {TRUE}, balance : OrchBalances, positions : PositionLists]

\* new balance minus the balance before the close
OrchPnls == {-50, 10}

\* the six keys get_decision requires
required_keys == DecisionKeys

ValidActions == {"BUY", "SELL", "CLOSE", "HOLD", "ADD"}

\* What the decision-maker answers: nothing from either model, text that is
\* not JSON, JSON that is not an object (a list, a number, null), or an
\* object: without one required key, with an unknown action, or a decision.
OrchResponses ==
    {[text |-> t, obj |-> EmptyDict] : t \in {"unavailable", "not_json", "not_object"}}
    \cup {[text |-> "object", obj |-> o] :
            o \in {Without(SoundEntry, "confidence"),
                   [SoundEntry EXCEPT !.action = "WAIT"],
                   SoundEntry,
                   [SoundEntry EXCEPT !.action = "SELL", !.leverage = 25],
                   [SoundEntry EXCEPT !.action = "HOLD"],
                   [SoundEntry EXCEPT !.action = "CLOSE"],
                   [SoundEntry EXCEPT !.action = "ADD"]}}

\* what a call returns or raises
Returned(r, v) == [ret |-> r, value |-> v]

\* get_decision: None when both models failed and when json.loads raises
\* JSONDecodeError; decision.keys() raises AttributeError when json.loads
\* returned something that is not a dict; None when a required key is
\* missing or the action is unknown; otherwise the decision
get_decision(resp) ==
    IF resp.text = "unavailable" THEN Returned("None", EmptyDict)
    ELSE IF resp.text = "not_json" THEN Returned("None", EmptyDict)
    ELSE IF resp.text = "not_object" THEN Returned("raise", EmptyDict)
    ELSE IF ~(required_keys \subseteq DOMAIN resp.obj) THEN Returned("None", EmptyDict)
    ELSE IF resp.obj.action \notin ValidActions THEN Returned("None", EmptyDict)
    ELSE Returned("decision", resp.obj)

\* main() after risk.RiskManager(starting_balance), before ws_stream.start()
InitMain ==
    /\ InitFeed
    /\ OrchIdle
    /\ DataIdle
    /\ AuxIdle
    /\ starting_balance \in OrchBalances
    /\ consecutive_losses = 0
    /\ riskCall = NoCall
    /\ pnlLog = << >>
    /\ mainPc = "o_start"
    /\ mainAcc = "none"
    /\ ret = "none"
    /\ retOk = TRUE

\* what a cycle or a quick check leaves behind when it ends: its locals
\* are dead
CycleLocalsCleared ==
    /\ account' = NoAccount
    /\ response' = NoResponse
    /\ decided' = NotCalled
    /\ execCall' = "none"
    /\ closeRet' = "none"
    /\ quick' = "not_called"
    /\ recordCalls' = 0
    /\ riskCall' = NoCall

\* the variables no step of the loop's body touches
loopFrame == <<cycles, shutdownRequested, starting_balance, pnlLog, dataVars,
               stateVars, lock, lifeVars, feedVars, mainAcc, ret, retOk, histVars>>

\* the variables a step of the cycle body never touches
bodyFrame == <<quick, loopFrame>>

\* main(): ws_stream.start(), once, before the loop
OrchStart ==
    /\ mainPc = "o_start"
    /\ start
    /\ mainPc' = "o_poll5"
    /\ UNCHANGED <<appVars, mainAcc, ret, retOk>>

\* is_*candle_closed() in the wait loop, first operand
OrchReadClosed(at, i, yes, no) ==
    /\ mainPc = at
    /\ mainPc' = IF ClosedOperand(i) THEN yes ELSE no
    /\ UNCHANGED <<appVars, stateVars, lock, lifeVars, feedVars,
                   mainAcc, ret, retOk, histVars>>

\* is_*candle_closed() in the wait loop, second operand
OrchReadAck(at, i, yes, no) ==
    /\ mainPc = at
    /\ mainPc' = IF AckOperand(i) THEN yes ELSE no
    /\ UNCHANGED <<appVars, stateVars, lock, lifeVars, feedVars,
                   mainAcc, ret, retOk, histVars>>

\* (mutant) every 1m ack of the wait loop is followed by the quick check
OrchAck_ThenQuick(at, i, next) ==
    /\ mainPc = at
    /\ ack_candle_close(i)
    /\ mainPc' = IF i = "1m" THEN "o_quick" ELSE next
    /\ UNCHANGED <<appVars, mainAcc, ret, retOk>>

\* ack_candle_close() / ack_1m_candle_close() in the wait loop
OrchAck(at, i, next) ==
    /\ mainPc = at
    /\ ack_candle_close(i)
    /\ mainPc' = next
    /\ UNCHANGED <<appVars, mainAcc, ret, retOk>>

\* the break out of the wait loop: cycle_count += 1
OrchCycleStart ==
    /\ mainPc = "o_cycle"
    /\ cycles' = IF cycles <= MaxCloses THEN cycles + 1 ELSE cycles
    /\ mainPc' = "o_fetch"
    /\ UNCHANGED <<pyramid_count, account, response, decided, execCall, closeRet,
                   quick, recordCalls, shutdownRequested, riskVars, dataVars,
                   stateVars, lock, lifeVars, feedVars, mainAcc, ret,
                   retOk, histVars>>

\* steps 1 to 4 of the cycle: the timeframes and the sentiment (their
\* failures are caught in place), the 5m candles and indicators, the account
\* state, the recent trades; any of the fetches can raise
OrchFetch ==
    /\ mainPc = "o_fetch"
    /\ \/ account' = account /\ mainPc' = "o_except"
       \/ account' \in OrchAccounts /\ mainPc' = "o_decide"
    /\ UNCHANGED <<pyramid_count, response, decided, execCall, closeRet, recordCalls,
                   consecutive_losses, riskCall, bodyFrame>>

\* step 5: decision = gemini_client.get_decision(...); None skips the cycle
OrchDecide ==
    /\ mainPc = "o_decide"
    /\ \E r \in OrchResponses :
          /\ response' = r
          /\ decided' = get_decision(r)
          /\ mainPc' = CASE get_decision(r).ret = "raise" -> "o_except"
                         [] get_decision(r).ret = "None" -> "o_cycle_done"
                         [] OTHER -> "o_validate"
    /\ UNCHANGED <<pyramid_count, account, execCall, closeRet, recordCalls,
                   consecutive_losses, riskCall, bodyFrame>>

\* the gate's verdict on the cycle's decision, as the call record
OrchGateCall ==
    [made |-> TRUE,
     decision |-> decided.value,
     current_balance |-> account.balance,
     open_positions |-> account.positions,
     result |-> validate(decided.value, account.balance, account.positions)]

\* (mutant) the verdict is printed and not acted on
OrchValidate_IgnoresVerdict ==
    /\ mainPc = "o_validate"
    /\ IF decided.value.action \in {"BUY", "SELL"}
       THEN riskCall' = OrchGateCall
       ELSE riskCall' = riskCall
    /\ mainPc' = "o_execute"
    /\ UNCHANGED <<pyramid_count, account, response, decided, execCall, closeRet,
                   recordCalls, consecutive_losses, bodyFrame>>

\* step 6: for BUY and SELL only, risk_mgr.validate(decision, balance,
\* positions); a rejection is logged and the cycle ends
OrchValidate ==
    /\ mainPc = "o_validate"
    /\ IF decided.value.action \in {"BUY", "SELL"}
       THEN /\ riskCall' = OrchGateCall
            /\ mainPc' = IF OrchGateCall.result.allowed
                         THEN "o_execute" ELSE "o_cycle_done"
       ELSE /\ riskCall' = riskCall
            /\ mainPc' = "o_execute"
    /\ UNCHANGED <<pyramid_count, account, response, decided, execCall, closeRet,
                   recordCalls, consecutive_losses, bodyFrame>>

\* step 7, HOLD: logged and remembered, which can fail
OrchHold ==
    /\ mainPc = "o_execute"
    /\ decided.value.action = "HOLD"
    /\ mainPc' \in {"o_cycle_done", "o_except"}
    /\ UNCHANGED <<pyramid_count, account, response, decided, execCall, closeRet,
                   recordCalls, consecutive_losses, riskCall, bodyFrame>>

\* close_result = execution.execute_close(): it raises; or returns None;
\* or returns a result, after which data.fetch_account_info() raises, or
\* returns and risk_mgr.record_trade_result(new balance - balance) is called;
\* then the close is remembered and logged, which can raise (a quick-check
\* answer without "confidence", the trade log not writable), and
\* _pyramid_count is reset
CloseAndRecord(done, closeRaised, fetchRaised) ==
    /\ execCall' = "close"
    /\ \/ /\ closeRet' = "none"
          /\ mainPc' = closeRaised
          /\ UNCHANGED <<consecutive_losses, recordCalls, pyramid_count>>
       \/ /\ closeRet' = "null"
          /\ mainPc' = done
          /\ UNCHANGED <<consecutive_losses, recordCalls, pyramid_count>>
       \/ /\ closeRet' = "result"
          /\ mainPc' = fetchRaised
          /\ UNCHANGED <<consecutive_losses, recordCalls, pyramid_count>>
       \/ /\ closeRet' = "result"
          /\ mainPc' = fetchRaised
          /\ \E pnl \in OrchPnls : record_trade_result(pnl)
          /\ recordCalls' = recordCalls + 1
          /\ pyramid_count' = pyramid_count
       \/ /\ closeRet' = "result"
          /\ mainPc' = done
          /\ \E pnl \in OrchPnls : record_trade_result(pnl)
          /\ recordCalls' = recordCalls + 1
          /\ pyramid_count' = 0

\* step 7, CLOSE
OrchClose ==
    /\ mainPc = "o_execute"
    /\ decided.value.action = "CLOSE"
    /\ CloseAndRecord("o_cycle_done", "o_except", "o_except")
    /\ UNCHANGED <<account, response, decided, riskCall, bodyFrame>>

\* (mutant) every ADD decision is counted as an add
OrchAdd_CountsEveryAdd ==
    /\ mainPc = "o_execute"
    /\ decided.value.action = "ADD"
    /\ mainPc' = "o_cycle_done"
    /\ pyramid_count' = pyramid_count + 1
    /\ UNCHANGED <<account, response, decided, execCall, closeRet,
                   recordCalls, consecutive_losses, riskCall, bodyFrame>>

\* step 7, ADD: skipped without a position or at the pyramid limit;
\* otherwise fetch_current_price() can raise, and execution.execute_add is
\* not defined by execution.py: the AttributeError is caught by the
\* try around the call and printed as "ADD failed"
OrchAdd ==
    /\ mainPc = "o_execute"
    /\ decided.value.action = "ADD"
    /\ IF account.positions = << >> \/ pyramid_count >= MAX_PYRAMID_ADDS
       THEN mainPc' = "o_cycle_done"
       ELSE mainPc' \in {"o_except", "o_cycle_done"}
    /\ UNCHANGED <<pyramid_count, account, response, decided, execCall, closeRet,
                   recordCalls, consecutive_losses, riskCall, bodyFrame>>

\* step 7, BUY or SELL: fetch_current_price() can raise; execute_open is
\* called and raises, or returns and _pyramid_count is reset
OrchOpen ==
    /\ mainPc = "o_execute"
    /\ decided.value.action \in {"BUY", "SELL"}
    /\ \/ /\ mainPc' = "o_except"
          /\ UNCHANGED <<execCall, pyramid_count>>
       \/ /\ execCall' = "open"
          /\ mainPc' = "o_except"
          /\ pyramid_count' = pyramid_count
       \/ /\ execCall' = "open"
          /\ mainPc' \in {"o_cycle_done", "o_except"}
          /\ pyramid_count' = 0
    /\ UNCHANGED <<account, response, decided, closeRet, recordCalls,
                   consecutive_losses, riskCall, bodyFrame>>

\* (mutant) the end of a cycle acknowledges the 5m close again
OrchCycleEnd_AcksAgain == OrchAck("o_cycle_done", "5m", "o_poll5")

\* the cycle ends at its last statement or at a continue: back to the wait
\* loop
OrchCycleEnd ==
    /\ mainPc = "o_cycle_done"
    /\ mainPc' = "o_poll5"
    /\ CycleLocalsCleared
    /\ UNCHANGED <<pyramid_count, consecutive_losses, loopFrame>>

\* (mutant) the except clause lets the loop end
OrchExcept_Exits ==
    /\ mainPc = "o_except"
    /\ mainPc' = "o_exit"
    /\ CycleLocalsCleared
    /\ UNCHANGED <<pyramid_count, consecutive_losses, loopFrame>>

\* except Exception: the traceback is printed, time.sleep(10), and the
\* while True goes on with the wait loop
OrchExcept ==
    /\ mainPc = "o_except"
    /\ mainPc' = "o_poll5"
    /\ CycleLocalsCleared
    /\ UNCHANGED <<pyramid_count, consecutive_losses, loopFrame>>

\* what gemini_client.get_quick_check gives main: it raises (no client), or
\* returns None (no answer, an answer that does not parse, an action other
\* than CLOSE and HOLD), or the decoded answer, by its action
QuickChecks == {"raise", "None", "HOLD", "CLOSE"}

\* (mutant) the quick check closes whatever the answer
OrchQuick_ClosesAlways ==
    /\ mainPc = "o_quick"
    /\ account' \in {a \in OrchAccounts : a.positions # << >>}
    /\ quick' \in QuickChecks
    /\ CloseAndRecord("o_heartbeat", "o_quick_except", "o_quick_except")
    /\ UNCHANGED <<response, decided, riskCall, loopFrame>>

\* the 1m quick check: fetch_account_info() raises (to the outer except); or
\* there is no position; or, inside the inner try, get_quick_check is not
\* reached (an indicator fetch raised, or there is no position info), or it
\* is called and nothing is closed (it raised, returned None or HOLD), or it
\* returned CLOSE and the position is closed as in the CLOSE path; an
\* exception inside the try goes to its except clause
OrchQuick ==
    /\ mainPc = "o_quick"
    /\ \/ /\ mainPc' = "o_except"
          /\ UNCHANGED <<account, quick, execCall, closeRet, recordCalls,
                         consecutive_losses, pyramid_count>>
       \/ /\ account' \in {a \in OrchAccounts : a.positions = << >>}
          /\ mainPc' = "o_heartbeat"
          /\ UNCHANGED <<quick, execCall, closeRet, recordCalls,
                         consecutive_losses, pyramid_count>>
       \/ /\ account' \in {a \in OrchAccounts : a.positions # << >>}
          /\ \/ /\ quick' \in {quick, "raise"}
                /\ mainPc' = "o_quick_except"
                /\ UNCHANGED <<execCall, closeRet, recordCalls,
                               consecutive_losses, pyramid_count>>
             \/ /\ quick' \in {quick, "None", "HOLD"}
                /\ mainPc' = "o_heartbeat"
                /\ UNCHANGED <<execCall, closeRet, recordCalls,
                               consecutive_losses, pyramid_count>>
             \/ /\ quick' = "CLOSE"
                /\ CloseAndRecord("o_heartbeat", "o_quick_except", "o_quick_except")
    /\ UNCHANGED <<response, decided, riskCall, loopFrame>>

\* the quick check's except clause: the error is printed
OrchQuickExcept ==
    /\ mainPc = "o_quick_except"
    /\ mainPc' = "o_heartbeat"
    /\ UNCHANGED <<appVars, stateVars, lock, lifeVars, feedVars, mainAcc, ret,
                   retOk, histVars>>

\* the heartbeat: not due, or get_state(), get_realtime_flow() and
\* get_realtime_book() read _state and print; nothing is written
OrchHeartbeat ==
    /\ mainPc = "o_heartbeat"
    /\ mainPc' = "o_poll5"
    /\ CycleLocalsCleared
    /\ UNCHANGED <<pyramid_count, consecutive_losses, loopFrame>>

\* where the main thread is while its loop runs
LoopPcs ==
    {"o_poll5", "o_poll5_ack", "o_ack5", "o_also1", "o_also1_ack", "o_also1_do",
     "o_cycle", "o_fetch", "o_decide", "o_validate", "o_execute", "o_cycle_done",
     "o_poll1", "o_poll1_ack", "o_ack1", "o_quick", "o_quick_except",
     "o_heartbeat", "o_except"}

\* where the main thread is inside _shutdown_handler
ShutdownPcs == {"o_exit_close", "o_stop_close", "o_stop_clear"}

\* (mutant) the handler goes to ws_stream.stop() at once
OrchSignal_SkipsClose ==
    /\ mainPc \in LoopPcs
    /\ shutdownRequested' = TRUE
    /\ mainPc' = "o_stop_close"
    /\ UNCHANGED <<cycles, pyramid_count, account, response, decided, execCall,
                   closeRet, quick, recordCalls, riskVars, dataVars, stateVars, lock,
                   lifeVars, feedVars, mainAcc, ret, retOk, histVars>>

\* the first SIGINT or SIGTERM: _shutdown_handler sets _shutting_down
OrchSignal ==
    /\ mainPc \in LoopPcs
    /\ shutdownRequested' = TRUE
    /\ mainPc' = "o_exit_close"
    /\ UNCHANGED <<cycles, pyramid_count, account, response, decided, execCall,
                   closeRet, quick, recordCalls, riskVars, dataVars, stateVars, lock,
                   lifeVars, feedVars, mainAcc, ret, retOk, histVars>>

\* close_all_positions(): execute_close for every open position; there is
\* none, or an exception ends it, swallowed by its except clause
OrchExitClose ==
    /\ mainPc = "o_exit_close"
    /\ execCall' \in {execCall, "exit_close"}
    /\ mainPc' = "o_stop_close"
    /\ UNCHANGED <<cycles, pyramid_count, account, response, decided, closeRet,
                   quick, recordCalls, shutdownRequested, riskVars, dataVars, stateVars,
                   lock, lifeVars, feedVars, mainAcc, ret, retOk, histVars>>

\* ws_stream.stop() up to _ws_instance.close()
OrchStopClose ==
    /\ mainPc = "o_stop_close"
    /\ sock' = IF ws_instance # "none" THEN "closed" ELSE sock
    /\ mainPc' = "o_stop_clear"
    /\ UNCHANGED <<appVars, stateVars, lock, ws_instance, threads, apps, feedVars,
                   mainAcc, ret, retOk, histVars>>

\* the handler's end: _ws_instance = None and SystemExit(0), which leaves
\* the loop (except SystemExit: break) or main() itself; the process ends
\* and its daemon thread with it
OrchExit ==
    /\ mainPc = "o_stop_clear"
    /\ ws_instance' = "none"
    /\ stopDone' = TRUE
    /\ mainPc' = "o_exit"
    /\ threads' = 0
    /\ feedPc' = "none"
    /\ feedMsg' = NoMsg
    /\ lock' = "free"
    /\ UNCHANGED <<appVars, stateVars, sock, apps, mainAcc, ret, retOk,
                   closes, unacked, coalesced, startCalls, subscribed>>

\* a second signal while the handler runs: "Force exit", SystemExit(1) out
\* of the handler it interrupted; the process ends
OrchForceExit ==
    /\ mainPc \in ShutdownPcs
    /\ mainPc' = "o_exit"
    /\ threads' = 0
    /\ feedPc' = "none"
    /\ feedMsg' = NoMsg
    /\ lock' = "free"
    /\ UNCHANGED <<appVars, stateVars, ws_instance, sock, apps, mainAcc, ret, retOk,
                   histVars>>

\* the while True loop of main(): the wait loop and the cycle
OrchLoop ==
    \/ OrchStart
    \/ OrchReadClosed("o_poll5", "5m", "o_poll5_ack", "o_poll1")
    \/ OrchReadAck("o_poll5_ack", "5m", "o_ack5", "o_poll1")
    \/ OrchAck("o_ack5", "5m", "o_also1")
    \/ OrchReadClosed("o_also1", "1m", "o_also1_ack", "o_cycle")
    \/ OrchReadAck("o_also1_ack", "1m", "o_also1_do", "o_cycle")
    \/ OrchAck("o_also1_do", "1m", "o_cycle")
    \/ OrchCycleStart
    \/ OrchFetch
    \/ OrchDecide
    \/ OrchValidate
    \/ OrchHold
    \/ OrchClose
    \/ OrchAdd
    \/ OrchOpen
    \/ OrchCycleEnd
    \/ OrchExcept
    \/ OrchReadClosed("o_poll1", "1m", "o_poll1_ack", "o_heartbeat")
    \/ OrchReadAck("o_poll1_ack", "1m", "o_ack1", "o_heartbeat")
    \/ OrchAck("o_ack1", "1m", "o_quick")
    \/ OrchQuick
    \/ OrchQuickExcept
    \/ OrchHeartbeat


\* the handler's body after the first signal
OrchHandler ==
    \/ OrchExitClose
    \/ OrchStopClose
    \/ OrchExit

\* the signal handler
OrchShutdown ==
    \/ OrchSignal
    \/ OrchHandler
    \/ OrchForceExit

Orchestrator == OrchLoop \/ OrchShutdown

Init == InitMain

Next == FeedThread \/ Orchestrator

\* the program: the orchestrator's main thread and the feed thread
Spec == Init /\ [][Next]_vars

\* the cycle body as the wait loop sees it: steps 1 to 7 return or raise,
\* and write nothing the wait loop reads
OrchBody ==
    /\ mainPc = "o_fetch"
    /\ mainPc' \in {"o_cycle_done", "o_except"}
    /\ UNCHANGED <<appVars, stateVars, lock, lifeVars, feedVars, mainAcc, ret,
                   retOk, histVars>>

\* the 1m quick check as the wait loop sees it: it ends, or
\* fetch_account_info() raises to the outer except
OrchQuickCheck ==
    /\ mainPc = "o_quick"
    /\ mainPc' \in {"o_heartbeat", "o_except"}
    /\ UNCHANGED <<appVars, stateVars, lock, lifeVars, feedVars, mainAcc, ret,
                   retOk, histVars>>

\* the wait loop of main() around the cycle body
OrchWait ==
    \/ OrchStart
    \/ OrchReadClosed("o_poll5", "5m", "o_poll5_ack", "o_poll1")
    \/ OrchReadAck("o_poll5_ack", "5m", "o_ack5", "o_poll1")
    \/ OrchAck("o_ack5", "5m", "o_also1")
    \/ OrchReadClosed("o_also1", "1m", "o_also1_ack", "o_cycle")
    \/ OrchReadAck("o_also1_ack", "1m", "o_also1_do", "o_cycle")
    \/ OrchAck("o_also1_do", "1m", "o_cycle")
    \/ OrchCycleStart
    \/ OrchBody
    \/ OrchCycleEnd
    \/ OrchExcept
    \/ OrchReadClosed("o_poll1", "1m", "o_poll1_ack", "o_heartbeat")
    \/ OrchReadAck("o_poll1_ack", "1m", "o_ack1", "o_heartbeat")
    \/ OrchAck("o_ack1", "1m", "o_quick")
    \/ OrchQuickCheck
    \/ OrchHeartbeat

NextLoop == FeedThread \/ OrchWait \/ OrchShutdown

\* the wait loop and the feed thread, both scheduled whenever they can run
\* (a blocked lock acquisition is retried); signals arrive or not, and a
\* handler that was entered runs on
SpecLoop ==
    /\ Init /\ [][NextLoop]_vars
    /\ SF_vars(FeedThread) /\ SF_vars(OrchWait) /\ WF_vars(OrchHandler)

\* the feed module under any single-threaded client; the feed thread is
\* scheduled whenever it can run (a blocked lock acquisition is retried) and
\* an accessor that took the lock runs to its return
SpecApiFair == SpecApi /\ SF_vars(FeedThread) /\ WF_vars(ApiRead)

\* ------------------------------------------------------------ claims

\* C1: for each interval, is_candle_closed is true exactly when a close event
\* of that interval was processed since the last ack of that interval, and
\* the value a call returns is that of the state its last read sees.
C1_CloseFlagTracksUnacked ==
    /\ \A i \in Intervals : is_candle_closed(i) <=> unacked[i] > 0
    /\ retOk

\* a call returned true for 5m while a 1m close had been processed and acked
C1_Witness ==
    /\ mainPc = "return" /\ mainAcc = "is_candle_closed" /\ ret = "true"
    /\ closes["1m"] > 0 /\ ~is_candle_closed("1m")

\* C2: closes are coalesced: the ack that follows two or more unacknowledged
\* closes of an interval leaves is_candle_closed false for that interval.
C2_AckClearsCoalescedCloses ==
    [][\A i \in Intervals :
          (unacked[i] >= 2 /\ unacked'[i] = 0) => ~is_candle_closed(i)']_vars

\* one ack has cleared two closes of 5m
C2_Witness == coalesced["5m"] /\ unacked["5m"] = 0 /\ ~is_candle_closed("5m")

\* C3: the orchestrator starts at most one full analysis cycle per 5m close
\* event the feed has processed.
C3_CyclesAtMostCloses == cycles <= closes["5m"]

\* two closes, each answered by its own cycle
C3_Witness == cycles >= 2 /\ cycles = closes["5m"]

\* C4: once stop() has returned, the feed thread does not enter the
\* reconnect backoff.
C4_NoBackoffAfterStop ==
    [][(stopDone /\ feedPc # "backoff") => feedPc' # "backoff"]_vars

\* C5: once stop() has returned, connected does not become true and no
\* subscribe request is sent.
C5_NoReconnectAfterStop ==
    [][stopDone => /\ (~connected => ~connected')
                   /\ (~subscribed => ~subscribed')]_vars

\* C6: connected is true only once the current connection's subscribe
\* request was sent; the flag is clear whenever the thread is between two
\* connections; and without stop() every disconnect is followed by a new
\* connection attempt.
C6_ReconnectsForever ==
    /\ [](connected => subscribed)
    /\ [](feedPc \in {"backoff", "loop", "run_forever", "on_open"} => ~connected)
    /\ ((feedPc \in {"on_close", "clear", "backoff"} /\ ~stopDone)
          ~> (feedPc = "run_forever" \/ stopDone))

\* the thread is in backoff after a connection that had been established
C6_Witness == feedPc = "backoff" /\ subscribed /\ ~connected /\ ~stopDone

\* C7: start() while the feed runs creates no second thread or socket.
C7_StartIdempotent == threads <= 1 /\ apps <= 1

\* start() was called a second time
C7_Witness == startCalls >= 2 /\ threads = 1 /\ apps = 1

\* C8: an accessor reads _state only while holding _lock.
C8_AccessorsReadUnderLock == mainPc \in {"read", "read_ack"} => lock = "main"

\* ---- C9: the checks as section 4.4 of the design lists them, in its order
C9_Order ==
    <<"drawdown", "consecutive_losses", "open_position", "position_size",
      "leverage", "confidence", "sl_tp">>

\* the check a rejection reason belongs to
C9_CheckOf(reason) ==
    CASE reason \in {"size_max", "size_min"} -> "position_size"
      [] reason \in {"leverage_max", "leverage_min"} -> "leverage"
      [] OTHER -> reason

\* whether check k of the list fails for the recorded call
C9_Fails(k) ==
    LET d == riskCall.decision
        size == Get(d, "position_size_percent", 0)
        lev == Get(d, "leverage", 0)
    IN CASE k = 1 -> /\ starting_balance > 0
                     /\ (starting_balance - riskCall.current_balance) * 100
                           >= MAX_DRAWDOWN_PCT * starting_balance
         [] k = 2 -> consecutive_losses >= MAX_CONSECUTIVE_LOSSES
         [] k = 3 -> riskCall.open_positions # << >>
         [] k = 4 -> ~(0 < size /\ size <= MAX_POSITION_SIZE_PCT)
         [] k = 5 -> ~(1 <= lev /\ lev <= MAX_LEVERAGE)
         [] k = 6 -> Get(d, "confidence", 0) < MIN_CONFIDENCE_X100
         [] k = 7 -> Get(d, "stop_loss", 0) <= 0 \/ Get(d, "take_profit", 0) <= 0

\* C9: for a decision that is neither HOLD nor CLOSE, validate approves iff
\* no check fails, and otherwise rejects with the reason of the first check
\* that fails in the order drawdown, consecutive losses, open position,
\* position size, leverage, confidence, stop-loss/take-profit.
C9_FirstFailingCheckDecides ==
    (riskCall.made /\ Get(riskCall.decision, "action", "HOLD") \notin {"HOLD", "CLOSE"})
    => LET failing == {k \in 1..7 : C9_Fails(k)}
           first == CHOOSE k \in failing : \A j \in failing : k <= j
       IN IF failing = {}
          THEN riskCall.result = Verdict(TRUE, "approved")
          ELSE /\ ~riskCall.result.allowed
               /\ C9_CheckOf(riskCall.result.reason) = C9_Order[first]

\* 10% drawdown, leverage 25 and nothing else wrong: the leverage reason
C9_Witness ==
    /\ riskCall.made
    /\ starting_balance = 1000 /\ riskCall.current_balance = 900
    /\ riskCall.decision = [SoundEntry EXCEPT !.leverage = 25]
    /\ riskCall.open_positions = << >>
    /\ riskCall.result = Verdict(FALSE, "leverage_max")

\* C10: validate allows HOLD and CLOSE whatever the drawdown, the losing
\* streak, the open positions and the other fields of the decision.
C10_HoldCloseAlwaysAllowed ==
    (/\ riskCall.made
     /\ "action" \in DOMAIN riskCall.decision
     /\ riskCall.decision.action \in {"HOLD", "CLOSE"})
    => riskCall.result.allowed

\* a CLOSE allowed at 50% drawdown, after 12 losses, with a position open
C10_Witness ==
    /\ riskCall.made
    /\ "action" \in DOMAIN riskCall.decision
    /\ riskCall.decision.action = "CLOSE"
    /\ starting_balance = 1000 /\ riskCall.current_balance = 500
    /\ consecutive_losses >= MAX_CONSECUTIVE_LOSSES
    /\ riskCall.open_positions # << >>
    /\ riskCall.result.allowed

\* ---- the recorded validate call, for the claims about the gate
\* the action validate acts on: decision.get("action", "HOLD")
C11_Action == Get(riskCall.decision, "action", "HOLD")

\* C11 as stated: validate rejects every decision whose leverage exceeds
\* MAX_LEVERAGE.
C11_RejectsAnyOverLeverage ==
    (riskCall.made /\ Get(riskCall.decision, "leverage", 0) > MAX_LEVERAGE)
    => ~riskCall.result.allowed

\* C11: validate rejects every decision that is neither HOLD nor CLOSE and
\* whose leverage exceeds MAX_LEVERAGE, whatever its confidence and its
\* position size.
C11_RejectsEntryOverLeverage ==
    (/\ riskCall.made
     /\ C11_Action \notin {"HOLD", "CLOSE"}
     /\ Get(riskCall.decision, "leverage", 0) > MAX_LEVERAGE)
    => ~riskCall.result.allowed

\* a SELL at the size limit, at the confidence threshold, with nothing wrong
\* but its leverage of 25, is rejected
C11_Witness ==
    /\ riskCall.made
    /\ riskCall.decision =
          [SoundEntry EXCEPT !.action = "SELL", !.leverage = 25,
                             !.position_size_percent = 90]
    /\ riskCall.current_balance = 1000 /\ starting_balance = 1000
    /\ consecutive_losses = 0
    /\ riskCall.open_positions = << >>
    /\ ~riskCall.result.allowed

\* ---- C12: the recorded call is an entry whose checks before check k pass
C12_Entry == riskCall.made /\ C11_Action \notin {"HOLD", "CLOSE"}

C12_Reason == riskCall.result.reason

\* C12: the limits are inclusive or exclusive as stated: a drawdown equal to
\* MAX_DRAWDOWN_PCT is rejected; a size equal to MAX_POSITION_SIZE_PCT, a
\* leverage of 1 or of MAX_LEVERAGE and a confidence equal to MIN_CONFIDENCE
\* are not what a decision is rejected for, and a decision at all these
\* limits with a positive stop_loss and take_profit is approved when nothing
\* else is wrong; a size of 0, a leverage below 1, a stop_loss of 0 and a
\* take_profit of 0 are rejected.
C12_BoundsAsSpecified ==
    C12_Entry =>
    LET d == riskCall.decision
        size == Get(d, "position_size_percent", 0)
        lev == Get(d, "leverage", 0)
        conf == Get(d, "confidence", 0)
        sl == Get(d, "stop_loss", 0)
        tp == Get(d, "take_profit", 0)
        dd_equal == /\ starting_balance > 0
                    /\ (starting_balance - riskCall.current_balance) * 100
                          = MAX_DRAWDOWN_PCT * starting_balance
        dd_below == \/ starting_balance <= 0
                    \/ (starting_balance - riskCall.current_balance) * 100
                          < MAX_DRAWDOWN_PCT * starting_balance
    IN /\ dd_equal => (~riskCall.result.allowed /\ C12_Reason = "drawdown")
       /\ size = MAX_POSITION_SIZE_PCT => C12_Reason \notin {"size_max", "size_min"}
       /\ size = 0 => ~riskCall.result.allowed
       /\ lev \in {1, MAX_LEVERAGE} => C12_Reason \notin {"leverage_max", "leverage_min"}
       /\ lev < 1 => ~riskCall.result.allowed
       /\ conf = MIN_CONFIDENCE_X100 => C12_Reason # "confidence"
       /\ (sl = 0 \/ tp = 0) => ~riskCall.result.allowed
       /\ (/\ dd_below
           /\ consecutive_losses < MAX_CONSECUTIVE_LOSSES
           /\ riskCall.open_positions = << >>
           /\ size = MAX_POSITION_SIZE_PCT
           /\ lev \in {1, MAX_LEVERAGE}
           /\ conf = MIN_CONFIDENCE_X100
           /\ sl > 0 /\ tp > 0) => riskCall.result.allowed

\* an entry at size 90, leverage 1 and confidence 0.30 is approved one loss
\* short of the streak limit, and the same entry is rejected at a drawdown of
\* exactly 50%
C12_Witness ==
    /\ riskCall.made
    /\ riskCall.decision =
          [SoundEntry EXCEPT !.position_size_percent = 90, !.leverage = 1]
    /\ riskCall.open_positions = << >>
    /\ starting_balance = 1000
    /\ \/ /\ riskCall.current_balance = 900
          /\ consecutive_losses = MAX_CONSECUTIVE_LOSSES - 1
          /\ riskCall.result = Verdict(TRUE, "approved")
       \/ /\ riskCall.current_balance = 500
          /\ riskCall.result = Verdict(FALSE, "drawdown")

\* ---- C13: the number of trailing losses of a call log
RECURSIVE C13_TrailingLosses(_)
C13_TrailingLosses(log) ==
    IF log = << >> THEN 0
    ELSE IF log[Len(log)] < 0
         THEN 1 + C13_TrailingLosses(SubSeq(log, 1, Len(log) - 1))
         ELSE 0

\* C13: after any sequence of record_trade_result calls, consecutive_losses
\* is the number of trailing calls with pnl < 0 since the last call with
\* pnl >= 0 (when the remembered calls are all losses and older calls were
\* forgotten, it is at least their number).
C13_CountsTrailingLosses ==
    LET t == C13_TrailingLosses(pnlLog)
    IN IF t < Len(pnlLog) \/ Len(pnlLog) < MaxLog
       THEN consecutive_losses = t
       ELSE consecutive_losses >= t

\* two losses and then a gain: the counter is back at 0
C13_Witness ==
    /\ Len(pnlLog) = 3
    /\ pnlLog[1] < 0 /\ pnlLog[2] < 0 /\ pnlLog[3] > 0
    /\ consecutive_losses = 0

\* C14 as stated: after construction only record_trade_result changes
\* starting_balance or consecutive_losses.
C14_OnlyRecordMutates ==
    [][(starting_balance' # starting_balance
           \/ consecutive_losses' # consecutive_losses)
       => \E pnl \in Pnls : RiskRecord(pnl)]_vars

\* C14: after construction starting_balance never changes, validate changes
\* neither field, and consecutive_losses is changed only by
\* record_trade_result and by reset_consecutive_losses.
C14_OnlyRecordAndResetMutate ==
    [][/\ starting_balance' = starting_balance
       /\ consecutive_losses' # consecutive_losses
            => ((\E pnl \in Pnls : RiskRecord(pnl)) \/ RiskReset)]_vars

\* validate has rejected an entry while the streak stood at 2
C14_Witness ==
    /\ riskCall.made
    /\ C11_Action = "BUY"
    /\ ~riskCall.result.allowed
    /\ consecutive_losses = 2
    /\ pnlLog = <<-50, -50>>

\* ---- the orchestrator's cycle, for the claims about it
\* the action of the decision get_decision returned in the current cycle
CycleAction == IF decided.ret = "decision" THEN decided.value.action ELSE "none"

\* C15: while the account state of the current cycle shows an open position,
\* the gate, which is handed that account state, rejects BUY and SELL, and
\* the orchestrator does not call execute_open.
C15_NoOpenWhilePositionOpen ==
    /\ riskCall.made => riskCall.open_positions = account.positions
    /\ (riskCall.made /\ account.positions # << >>) => ~riskCall.result.allowed
    /\ execCall = "open" => account.positions = << >>

\* a BUY with nothing wrong was rejected for the open position and the cycle
\* ended without an execution call
C15_Witness ==
    /\ mainPc = "o_cycle_done"
    /\ CycleAction = "BUY"
    /\ account.positions # << >>
    /\ riskCall.made
    /\ riskCall.result = Verdict(FALSE, "open_position")
    /\ execCall = "none"

C17_NoDecision(resp) ==
    \/ resp.text = "not_json"
    \/ ~(required_keys \subseteq DOMAIN resp.obj)
    \/ resp.obj.action \notin ValidActions

\* C17: for a response that is no decision, get_decision returns None
\* without raising, and the cycle has no validate, execution or
\* record_trade_result call.
C17_NoDecisionSkipsCycle ==
    (decided.ret # "not_called" /\ C17_NoDecision(response))
    => /\ decided.ret = "None"
       /\ ~riskCall.made
       /\ execCall \notin {"open", "add", "close"}
       /\ recordCalls = 0

\* C18: an exception in the wait loop or in the cycle leads to the except
\* clause and from there, after its delay, back to the wait loop; the loop
\* is left only after a shutdown signal.
C18_ExceptionsDoNotTerminate ==
    /\ [](mainPc = "o_exit" => shutdownRequested)
    /\ [][mainPc = "o_except"
            => mainPc' \in {"o_except", "o_poll5", "o_exit_close"}]_vars

\* the second cycle has raised: the first one did not end the loop
C18_Witness ==
    /\ mainPc = "o_except"
    /\ cycles = 2
    /\ account.fetched
    /\ ~shutdownRequested

\* the labels fetch_multi_timeframe is configured with
C19_Labels == {"1m", "5m", "15m", "1h", "4h"}

\* C19: fetch_multi_timeframe never raises, and what it returns has exactly
\* one entry per configured label: the error marker for the labels whose
\* fetch or computation failed, a signal summary for all the others.
C19_EveryLabelReturned ==
    /\ mtfPc # "raised"
    /\ mtfPc = "returned" =>
         /\ DOMAIN mtfResult = C19_Labels
         /\ \A k \in 1..Len(Timeframes) :
               IF mtfInput[k] = "ok"
               THEN /\ "error" \notin DOMAIN mtfResult[Timeframes[k]]
                    /\ mtfResult[Timeframes[k]] = Summary
               ELSE DOMAIN mtfResult[Timeframes[k]] = {"error"}

\* the fetch failed for 1m, the computation for 1h, and the other three
\* labels carry a summary
C19_Witness ==
    /\ mtfPc = "returned"
    /\ mtfInput = <<"fetch_raises", "ok", "ok", "compute_raises", "ok">>
    /\ "error" \in DOMAIN mtfResult["1m"]
    /\ "error" \in DOMAIN mtfResult["1h"]
    /\ mtfResult["5m"] = Summary

\* C20: record_trade_result is called once when execute_close has returned a
\* result, in the cycle's CLOSE path and in the quick check, and is not
\* called otherwise.
C20_RecordOncePerClose ==
    mainPc \in {"o_cycle_done", "o_heartbeat", "o_except", "o_poll5"}
    => IF closeRet = "result" THEN recordCalls = 1 ELSE recordCalls = 0

\* ---- C21: the trades of the tape inside the trailing window, by position
C21_InWindow == {i \in 1..Len(agg_trades) : agg_trades[i].ts >= now - FLOW_WINDOW_MS}

\* ---- C21: the volume of the trades at the positions S on one side
RECURSIVE C21_Volume(_, _)
C21_Volume(S, side) ==
    IF S = {} THEN 0
    ELSE LET i == CHOOSE j \in S : TRUE
         IN  (IF agg_trades[i].is_buy = side THEN agg_trades[i].qty ELSE 0)
             + C21_Volume(S \ {i}, side)

\* C21: get_realtime_flow counts exactly the trades of the tape whose timestamp
\* lies within the trailing 10 000 ms of the query, the one at the cutoff
\* included; older trades contribute nothing, so a tape of older trades only
\* gives trade_count_10s = 0 and flow NEUTRAL; and a query removes no entry
\* from the tape.
C21_FlowCountsTheWindow ==
    /\ [](flowRet.made =>
            /\ flowRet.trade_count_10s = Cardinality(C21_InWindow)
            /\ flowRet.buy_vol_10s = C21_Volume(C21_InWindow, TRUE)
            /\ flowRet.sell_vol_10s = C21_Volume(C21_InWindow, FALSE)
            /\ (C21_InWindow = {} =>
                   flowRet.trade_count_10s = 0 /\ flowRet.flow = "NEUTRAL"))
    /\ [][flowRet'.made => agg_trades' = agg_trades]_vars

\* a query that counted a trade exactly at the cutoff and left out an older one
C21_Witness ==
    /\ flowRet.made
    /\ \E i, j \in 1..Len(agg_trades) :
          /\ agg_trades[i].ts < now - FLOW_WINDOW_MS
          /\ agg_trades[j].ts = now - FLOW_WINDOW_MS
    /\ flowRet.trade_count_10s >= 1
    /\ flowRet.trade_count_10s < Len(agg_trades)

C24_PressureMatchesImbalancePct ==
    bookRet.made =>
        /\ (bookRet.pressure = "BUY") <=> (bookRet.imbalance_pct > 10 * PRESSURE_PCT)
        /\ (bookRet.pressure = "SELL") <=> (bookRet.imbalance_pct < (0 - 10) * PRESSURE_PCT)
        /\ (bookRet.pressure = "NEUTRAL") <=>
               /\ bookRet.imbalance_pct <= 10 * PRESSURE_PCT
               /\ bookRet.imbalance_pct >= (0 - 10) * PRESSURE_PCT

\* ---- C25: the book fields as the levels of one message give them
C25_FromMessage(bids, asks) ==
    LET bid_vol == SumQty(bids)
        ask_vol == SumQty(asks)
        total == bid_vol + ask_vol
    IN  /\ book.book_bids_vol = bid_vol
        /\ book.book_asks_vol = ask_vol
        /\ total > 0 => book.book_imbalance = Ratio((bid_vol - ask_vol) * 100, total)
        /\ total = 0 => book.book_imbalance.num = 0
        /\ book.book_pressure =
              (IF (bid_vol - ask_vol) * 100 > PRESSURE_PCT * total THEN "BUY"
               ELSE IF (bid_vol - ask_vol) * 100 < (0 - PRESSURE_PCT) * total THEN "SELL"
               ELSE "NEUTRAL")
        /\ bids # << >> => book.book_best_bid = bids[1][1]
        /\ asks # << >> => book.book_best_ask = asks[1][1]

\* C25 (as stated): after any depth message is handled, every book field is
\* the one the levels of that message give.
C25_BookFromLastMessage ==
    lastDepth.made => C25_FromMessage(lastDepth.bids, lastDepth.asks)

\* C25 (amended): after a depth message with at least one level on each side
\* is handled, every book field is the one the levels of that message give,
\* whatever the book was before; a depth message with an empty side leaves
\* the book as it was.
C25_BookFromLastFullMessage ==
    /\ [](lastDepth.made /\ lastDepth.bids # << >> /\ lastDepth.asks # << >>
             => C25_FromMessage(lastDepth.bids, lastDepth.asks))
    /\ [][lastDepth'.made /\ (lastDepth'.bids = << >> \/ lastDepth'.asks = << >>)
             => book' = book]_vars

\* a message with two levels on each side handled, and the book showing the
\* best bid and the pressure of its levels
C25_Witness ==
    /\ lastDepth.made
    /\ Len(lastDepth.bids) = 2
    /\ Len(lastDepth.asks) = 2
    /\ lastDepth.bids[1][1] = 98
    /\ book.book_best_bid = 98
    /\ book.book_pressure = "BUY"

\* C26: place_market_order makes at most 3 submission attempts; it halves the
\* quantity, rounded down, before a retry, and retries only after a rejection
\* (HTTP 400); any other error, and the error of the third attempt, leaves
\* the function at once.
C26_RetriesOnlyRejections ==
    /\ Len(ordLog) <= MAX_ATTEMPTS
    /\ \A i \in 1..Len(ordLog) :
          /\ i < Len(ordLog) =>
                /\ ~ordLog[i].outcome.ok
                /\ ordLog[i].outcome.status = 400
                /\ ordLog[i + 1].quantity = round_qty(Half(ordLog[i].quantity))
          /\ ~ordLog[i].outcome.ok /\ ordLog[i].outcome.status # 400 =>
                i = Len(ordLog) /\ ordPc = "raised"
    /\ Len(ordLog) = MAX_ATTEMPTS => ordPc \in {"returned", "raised"}

\* C27: when the smoothed average loss is zero, as it is for closes that never
\* fall over at least 15 bars, the rsi14 of the snapshot is 100.
C27_RsiIs100WithoutLoss ==
    /\ snapshot.made
    /\ Len(candles) >= RSI_PERIOD + 1
    /\ avg_loss(candles, Len(candles)) = "zero"
    => snapshot.rsi14 = "100"

\* ---- C28: the shortest history with a stoch_rsi_k: 15 bars for the first
\* RSI, 13 more for its 14-row window, 2 more for the 3-row mean
C28_MinBars == (RSI_PERIOD + 1) + (STOCH_WINDOW - 1) + (STOCH_SMOOTH - 1)

\* ---- C28: closes that rise and fall within the first 15 bars and never
\* repeat the close before
C28_Moving ==
    /\ Len(candles) >= RSI_PERIOD + 1
    /\ \E i, j \in 2..(RSI_PERIOD + 1) :
          candles[i] > candles[i - 1] /\ candles[j] < candles[j - 1]
    /\ \A i \in 2..Len(candles) : candles[i] # candles[i - 1]

\* C28 (as stated): stoch_rsi_k is null for every history shorter than 14 + 3
\* bars and non-null for every history of at least that length.
C28_StochKNullBelow17 ==
    snapshot.made =>
        (snapshot.stoch_rsi_k = "null" <=> Len(candles) < RSI_PERIOD + STOCH_SMOOTH)

\* C28 (amended): stoch_rsi_k is null for every history shorter than 30 bars
\* (15 for the first RSI, 13 more for its 14-row window, 2 more for the 3-row
\* mean), and non-null for every history of at least 30 bars whose closes
\* rise and fall within the first 15 bars and never repeat the close before.
C28_StochKNullBelow30 ==
    snapshot.made =>
        /\ Len(candles) < C28_MinBars => snapshot.stoch_rsi_k = "null"
        /\ Len(candles) >= C28_MinBars /\ C28_Moving => snapshot.stoch_rsi_k = "num"

\* the shortest history with a stoch_rsi_k
C28_Witness ==
    /\ snapshot.made
    /\ Len(candles) = C28_MinBars
    /\ snapshot.stoch_rsi_k = "num"

\* C29: the engine never raises for a short history, of 0 and of 1 bar
\* included.
C29_EngineNeverRaises == indPc # "raised"

\* C30: the trend of the snapshot is BULLISH iff ema9 > ema20 > ema50, BEARISH
\* iff ema9 < ema20 < ema50, and MIXED in every other case, any equality
\* included; exactly one of the three is produced.
C30_TrendFollowsEmaOrder ==
    snapshot.made =>
        LET up == emas[1] > emas[2] /\ emas[2] > emas[3]
            down == emas[1] < emas[2] /\ emas[2] < emas[3]
        IN  /\ snapshot.ema_trend \in {"BULLISH", "BEARISH", "MIXED"}
            /\ (snapshot.ema_trend = "BULLISH") <=> up
            /\ (snapshot.ema_trend = "BEARISH") <=> down
            /\ (snapshot.ema_trend = "MIXED") <=> (~up /\ ~down)
            /\ (emas[1] = emas[2] \/ emas[2] = emas[3]) => snapshot.ema_trend = "MIXED"

\* a flat history: the three EMAs are equal and the trend is MIXED
C30_Witness ==
    /\ snapshot.made
    /\ Len(candles) >= 2
    /\ \A i \in 2..Len(candles) : candles[i] = candles[1]
    /\ emas[1] = emas[2]
    /\ emas[2] = emas[3]
    /\ snapshot.ema_trend = "MIXED"

\* where the main thread is between the ack of a 5m close and the break
\* out of the wait loop
C31_AfterAck5 == {"o_also1", "o_also1_ack", "o_also1_do"}

\* C31: a pending 5m close is eventually acknowledged, and the ack is
\* eventually followed by a full cycle, unless a shutdown was requested,
\* whatever was raised in the loop before; the pending flag is cleared only
\* by the wait loop's ack, from which the loop goes to the cycle's start.
C31_CloseLeadsToCycle ==
    /\ (unacked["5m"] > 0) ~> (mainPc = "o_also1" \/ shutdownRequested)
    /\ (mainPc \in C31_AfterAck5) ~> (mainPc = "o_fetch" \/ shutdownRequested)
    /\ [][(is_candle_closed("5m") /\ ~is_candle_closed("5m")')
            => (mainPc = "o_ack5" /\ mainPc' = "o_also1")]_vars
    /\ [][(mainPc \in C31_AfterAck5 /\ mainPc' # mainPc)
            => mainPc' \in C31_AfterAck5 \cup {"o_cycle", "o_exit_close"}]_vars

\* a 5m close is pending while the loop handles an exception
C31_Witness == unacked["5m"] > 0 /\ mainPc = "o_except" /\ ~shutdownRequested

\* the cycle's decision is ADD, the account shows a position and the
\* pyramid count is below its limit
C32_AddAllowed ==
    /\ mainPc = "o_execute"
    /\ CycleAction = "ADD"
    /\ account.positions # << >>
    /\ pyramid_count < MAX_PYRAMID_ADDS

C33_AddIncrementsCount ==
    [][(C32_AddAllowed /\ mainPc' = "o_cycle_done")
        => (execCall' = "add" /\ pyramid_count' = pyramid_count + 1)]_vars

\* C34: the first signal enters the handler at close_all_positions; the
\* handler closes, then stops the feed, then exits, each step only after
\* the one before it, and it does end; the only other way out of the
\* handler is a second signal, which exits without a close and without a
\* stop; nothing runs after the exit.
C34_ShutdownInOrder ==
    /\ [][(shutdownRequested' /\ ~shutdownRequested)
            => mainPc' = "o_exit_close"]_vars
    /\ [][(shutdownRequested /\ execCall' # execCall)
            => (mainPc = "o_exit_close" /\ mainPc' = "o_stop_close")]_vars
    /\ [][(shutdownRequested /\ mainPc' = "o_stop_close")
            => mainPc \in {"o_exit_close", "o_stop_close"}]_vars
    /\ [][(mainPc' = "o_stop_clear" /\ mainPc # "o_stop_clear")
            => /\ mainPc = "o_stop_close"
               /\ (ws_instance # "none" => sock' = "closed")]_vars
    /\ [][(stopDone' /\ ~stopDone)
            => (mainPc = "o_stop_clear" /\ mainPc' = "o_exit")]_vars
    /\ [][(mainPc \in ShutdownPcs /\ mainPc' = "o_exit" /\ ~stopDone')
            => (execCall' = execCall /\ sock' = sock)]_vars
    /\ [][mainPc = "o_exit" => mainPc' = "o_exit"]_vars
    /\ shutdownRequested ~> (mainPc = "o_exit")

\* the handler ran to its end after closing a position
C34_Witness == mainPc = "o_exit" /\ execCall = "exit_close" /\ stopDone

\* C36: once the 5m close is acknowledged the loop goes to the cycle's
\* start, acknowledging a pending 1m close on the way and never entering the
\* quick check; the quick check is entered only from the 1m ack of a poll
\* whose 5m test read the 5m close as not pending.
C36_FiveMinuteFirst ==
    /\ [][(mainPc \in C31_AfterAck5 /\ mainPc' # mainPc)
            => mainPc' \in C31_AfterAck5 \cup {"o_cycle", "o_exit_close"}]_vars
    /\ [][(mainPc = "o_also1_do" /\ mainPc' = "o_cycle")
            => (unacked'["1m"] = 0 /\ ~is_candle_closed("1m")')]_vars
    /\ [][(mainPc' = "o_quick" /\ mainPc # "o_quick") => mainPc = "o_ack1"]_vars
    /\ [][(mainPc' = "o_ack1" /\ mainPc # "o_ack1") => mainPc = "o_poll1_ack"]_vars
    /\ [][(mainPc' = "o_poll1_ack" /\ mainPc # "o_poll1_ack")
            => mainPc = "o_poll1"]_vars
    /\ [][(mainPc' = "o_poll1" /\ mainPc # "o_poll1")
            => \/ mainPc = "o_poll5" /\ ~ClosedOperand("5m")
               \/ mainPc = "o_poll5_ack" /\ ~AckOperand("5m")]_vars

\* the 5m close was acknowledged and a 1m close is pending at the 1m ack
\* before the cycle
C36_Witness ==
    mainPc = "o_also1_do" /\ unacked["5m"] = 0 /\ unacked["1m"] > 0

\* the quick check calls execute_close
C37_QuickCloses == mainPc = "o_quick" /\ execCall' # execCall

\* the steps of the quick check write no execution call but a close, and
\* that one only for an account with a position and an answer CLOSE; with
\* no position the step goes to the heartbeat and writes nothing else
C37_OnlyCloses ==
    /\ [][C37_QuickCloses
            => /\ execCall' = "close"
               /\ account'.positions # << >>
               /\ quick' = "CLOSE"]_vars
    /\ [][(mainPc \in {"o_poll1", "o_poll1_ack", "o_ack1", "o_quick_except"})
            => (execCall' = execCall)]_vars
    /\ [][(mainPc = "o_quick" /\ mainPc' # "o_quick"
             /\ account'.fetched /\ account'.positions = << >>)
            => /\ mainPc' = "o_heartbeat"
               /\ UNCHANGED <<execCall, closeRet, quick, recordCalls,
                              pyramid_count, riskVars>>]_vars

\* C37 as stated: the quick check calls execute_close only, for an open
\* position and an answer CLOSE, does nothing without a position, and a
\* quick check that ends in its except clause has left the risk state and
\* the pyramid count as they were.
C37_QuickCheckErrorsChangeNothing ==
    /\ C37_OnlyCloses
    /\ [][(mainPc = "o_quick" /\ mainPc' = "o_quick_except")
            => UNCHANGED <<riskVars, pyramid_count>>]_vars

\* C37: the quick check calls execute_close only, for an open position and
\* an answer CLOSE, and does nothing without a position; a quick check that
\* ends in its except clause has left the pyramid count as it was, and the
\* risk state too unless the close had returned a result, whose profit or
\* loss may then have been recorded, once.
C37_QuickCheckReducesOnly ==
    /\ C37_OnlyCloses
    /\ [][(mainPc = "o_quick" /\ mainPc' = "o_quick_except")
            => /\ pyramid_count' = pyramid_count
               /\ \/ UNCHANGED riskVars
                  \/ closeRet' = "result" /\ recordCalls' = recordCalls + 1]_vars
    /\ [][(mainPc = "o_quick" /\ riskVars' # riskVars)
            => closeRet' = "result" /\ recordCalls' = recordCalls + 1]_vars

\* a quick check closed the position on an answer CLOSE, recorded the
\* result and ended in its except clause
C37_Witness ==
    /\ mainPc = "o_quick_except"
    /\ quick = "CLOSE"
    /\ execCall = "close"
    /\ closeRet = "result"
    /\ recordCalls = 1

\* the requests of the log made to a model
C35_Requests(model) == {i \in 1..Len(callLog) : callLog[i].model = model}

\* the request failed for good: an error that is not retryable
C35_Fatal(i) ==
    callLog[i].outcome.kind = "raise" /\ ~is_retryable(callLog[i].outcome.err)

\* C35: a call of get_decision makes at most 3 requests to Pro, then at
\* most 2 to Flash, 5 in all, every step of it being a request; Flash is
\* asked only after Pro gave no text; a request that returns a text or
\* fails with a non-retryable error is the last one to its model; raw_text
\* is None at the end exactly when the last request gave no text.
C35_RequestsBounded ==
    /\ Cardinality(C35_Requests("pro")) <= PRO_RETRIES
    /\ Cardinality(C35_Requests("flash")) <= FLASH_RETRIES
    /\ Len(callLog) <= PRO_RETRIES + FLASH_RETRIES
    /\ callPc \in Models => Len(callLog) < PRO_RETRIES + FLASH_RETRIES
    /\ \A i \in C35_Requests("pro"), j \in C35_Requests("flash") : i < j
    /\ \A i \in 1..Len(callLog) - 1 :
          /\ callLog[i].outcome.kind # "text"
          /\ C35_Fatal(i) => callLog[i + 1].model # callLog[i].model
    /\ callPc = "returned" =>
          /\ callLog # << >>
          /\ callRet = "None" <=> callLog[Len(callLog)].outcome.kind # "text"
          /\ callRet = "None" =>
                \/ C35_Fatal(Len(callLog))
                \/ Cardinality(C35_Requests("flash")) = FLASH_RETRIES

\* both models were asked as often as allowed and get_decision has no text
C35_Witness ==
    /\ callPc = "returned"
    /\ callRet = "None"
    /\ Len(callLog) = PRO_RETRIES + FLASH_RETRIES

\* C38 as stated: once consecutive_losses has reached
\* MAX_CONSECUTIVE_LOSSES, validate approves no entry any more.
C38_GateStaysShut ==
    shut => ~(riskCall.made /\ riskCall.result.allowed)

\* the quantity of the market order that was accepted
C39_Accepted == ordLog[Len(ordLog)].quantity

\* C39 as stated: the quantity execute_open reports, and the quantity of
\* the stop-loss and take-profit orders it placed, is the quantity of the
\* market entry that was accepted.
C39_ReportsAcceptedQuantity ==
    openRet.made =>
        /\ openRet.quantity = C39_Accepted
        /\ openRet.sl_quantity \in {0, C39_Accepted}
        /\ openRet.tp_quantity \in {0, C39_Accepted}

\* the close flags of both intervals
C40_Flags == <<kline_closed, kline_close_ack>>

\* the step changes no field but last_msg_ts and those of the class of the
\* message handled
C40_OwnFieldsOnly ==
    CASE Event(rawMsg') = "kline" -> UNCHANGED <<book, agg_trades>>
      [] Event(rawMsg') = "aggTrade" -> UNCHANGED <<C40_Flags, kline, book>>
      [] Event(rawMsg') = "depthUpdate" ->
            UNCHANGED <<C40_Flags, kline, price, agg_trades>>
      [] OTHER -> UNCHANGED <<C40_Flags, kline, price, book, agg_trades>>

\* C40 as stated: a call of _on_message with text that is not JSON changes
\* no field of the feed state; a call with text that decodes stamps
\* last_msg_ts with the time of the call and changes, besides, only fields
\* of the message's own class.
C40_FrameOfMessage ==
    [][now' = now
        => IF ~IsJson(rawMsg')
           THEN UNCHANGED <<last_msg_ts, C40_Flags, kline, price, book, agg_trades>>
           ELSE last_msg_ts' = now /\ C40_OwnFieldsOnly]_vars


====
